---- MODULE Spec2Model ----
(***************************************************************************)
(* Resource-lifecycle and admission-control subsystem of the Copernicus    *)
(* download web UI: the link registry (temp_links), the artifact cache     *)
(* (download_index), the cleanup thread (Reaper), the atomic-replace       *)
(* persistence of the registry, the sliding-window rate limiter, the path  *)
(* containment check and the request signature.                            *)
(***************************************************************************)
EXTENDS Integers, Sequences, FiniteSets, TLC

(***************************************************************************)
(* Bounds of the model.                                                    *)
(***************************************************************************)
MaxTime == 3
MaxFiles == 2
MaxSends == 6
MaxCount == 1          \* download counts in the registries that are saved
MaxCalls == 4          \* calls of allow
MaxAdvances == 3       \* clock advances between calls of allow
TicksPerSecond == 2    \* resolution of time.time()
MaxPathLen == 3        \* components of a file_path
MaxExtra == 2          \* items selected beyond the base request
MaxSuspicious == 10    \* suspicious requests the security manager is sent
MaxClean == 1          \* clean requests the security manager is sent
MaxAdds == 2           \* direct calls of add_to_blacklist
MaxSecAdvances == 2    \* advances of the security manager's clock

(* The link ids uuid4 can return, the request threads, and the inputs. *)
LinkIds == {1, 2}
PersistIds == {1, 2}
Reqs == {"r1", "r2"}
Subs == {"s1", "s2"}
Sizes == {5}

(* Python's None, where a record is expected *)
None == [none |-> TRUE]

(***************************************************************************)
(* Program constants.                                                      *)
(***************************************************************************)
MAX_DOWNLOADS == 5
max_requests == 2
window_seconds == 60
MIN_LATITUDE == -90
MAX_LATITUDE == 90
MIN_LONGITUDE == -180
MAX_LONGITUDE == 180

(* SecurityConfig and the literals of security_manager.py, in seconds *)
BLACKLIST_DURATION == 3600
SUSPICIOUS_THRESHOLD == 10
SUSPICIOUS_WINDOW == 3600
MAX_REQUESTS_PER_MINUTE == 60
RATE_WINDOW == 60
block_duration == 300

(* EnhancedDownloadManager._max_errors *)
max_errors == 10

(* config.py DOWNLOAD_DIR = 'downloads', one path component, as characters *)
DOWNLOAD_DIR == <<"d", "o", "w", "n", "l", "o", "a", "d", "s">>

(***************************************************************************)
(* Paths.  A path is [abs, comps]: whether it starts with "/", and the     *)
(* components between the slashes, each a sequence of characters.          *)
(***************************************************************************)
DOT == <<".">>
DOTDOT == <<".", ".">>

RelPath(comps) == [abs |-> FALSE, comps |-> comps]

(* os.path.join(dir, filename) for a relative dir and a slash-free name *)
PathJoin(dir, filename) == RelPath(<<dir, filename>>)

RECURSIVE NormComps(_, _, _)
NormComps(comps, abs, acc) ==
    IF comps = <<>> THEN acc
    ELSE LET c == Head(comps)
             rest == Tail(comps)
         IN  IF c = <<>> \/ c = DOT THEN NormComps(rest, abs, acc)
             ELSE IF c # DOTDOT
                     \/ (~abs /\ acc = <<>>)
                     \/ (acc # <<>> /\ acc[Len(acc)] = DOTDOT)
                  THEN NormComps(rest, abs, Append(acc, c))
                  ELSE IF acc # <<>>
                       THEN NormComps(rest, abs, SubSeq(acc, 1, Len(acc) - 1))
                       ELSE NormComps(rest, abs, acc)

(* posixpath.normpath *)
NormPath(p) == [abs |-> p.abs, comps |-> NormComps(p.comps, p.abs, <<>>)]

RECURSIVE JoinChars(_)
JoinChars(comps) ==
    IF comps = <<>> THEN <<>>
    ELSE IF Len(comps) = 1 THEN Head(comps)
    ELSE Head(comps) \o <<"/">> \o JoinChars(Tail(comps))

(* the string of a path, as the sequence of its characters *)
PathStr(p) ==
    IF p.abs THEN <<"/">> \o JoinChars(p.comps)
    ELSE IF p.comps = <<>> THEN <<".">>
    ELSE JoinChars(p.comps)

(* str.startswith *)
StartsWith(s, prefix) ==
    /\ Len(prefix) <= Len(s)
    /\ SubSeq(s, 1, Len(prefix)) = prefix

(* SecurityValidator.validate_file_path *)
ValidateFilePath(file_path, allowed_directory) ==
    StartsWith(PathStr(NormPath(file_path)), PathStr(NormPath(allowed_directory)))

(***************************************************************************)
(* Times.  The clock of the link registry counts hours; a time is stored   *)
(* in a record as its ISO text (datetime.isoformat) and read back with     *)
(* datetime.fromisoformat.                                                 *)
(***************************************************************************)
IsoFormat(t) == [day |-> t \div 24, hour |-> t % 24]
FromIsoFormat(s) == s.day * 24 + s.hour

(***************************************************************************)
(* The size-tier table, in the order the dict is written.                  *)
(***************************************************************************)
FILE_SIZE_THRESHOLDS ==
    << [name |-> "tiny",   finite |-> TRUE,  max_size_mb |-> 10,   expiry_hours |-> 2],
       [name |-> "small",  finite |-> TRUE,  max_size_mb |-> 50,   expiry_hours |-> 4],
       [name |-> "medium", finite |-> TRUE,  max_size_mb |-> 200,  expiry_hours |-> 8],
       [name |-> "large",  finite |-> TRUE,  max_size_mb |-> 500,  expiry_hours |-> 12],
       [name |-> "xlarge", finite |-> TRUE,  max_size_mb |-> 1000, expiry_hours |-> 24],
       [name |-> "huge",   finite |-> FALSE, max_size_mb |-> 0,    expiry_hours |-> 48] >>

(* the loop with the size test written < *)
RECURSIVE ExpiryFromStrict(_, _)
ExpiryFromStrict(file_size_mb, i) ==
    IF i > Len(FILE_SIZE_THRESHOLDS)
    THEN FILE_SIZE_THRESHOLDS[5].expiry_hours
    ELSE LET config == FILE_SIZE_THRESHOLDS[i]
         IN  IF ~config.finite \/ file_size_mb < config.max_size_mb
             THEN config.expiry_hours
             ELSE ExpiryFromStrict(file_size_mb, i + 1)

(* the loop with the size test written >= *)
RECURSIVE ExpiryFromFlipped(_, _)
ExpiryFromFlipped(file_size_mb, i) ==
    IF i > Len(FILE_SIZE_THRESHOLDS)
    THEN FILE_SIZE_THRESHOLDS[5].expiry_hours
    ELSE LET config == FILE_SIZE_THRESHOLDS[i]
         IN  IF ~config.finite \/ file_size_mb >= config.max_size_mb
             THEN config.expiry_hours
             ELSE ExpiryFromFlipped(file_size_mb, i + 1)

(* the loop of get_expiry_hours from the i-th tier on, and its fall-through *)
RECURSIVE ExpiryFrom(_, _)
ExpiryFrom(file_size_mb, i) ==
    IF i > Len(FILE_SIZE_THRESHOLDS)
    THEN FILE_SIZE_THRESHOLDS[5].expiry_hours
    ELSE LET config == FILE_SIZE_THRESHOLDS[i]
         IN  IF ~config.finite \/ file_size_mb <= config.max_size_mb
             THEN config.expiry_hours
             ELSE ExpiryFrom(file_size_mb, i + 1)

(* EnhancedDownloadManager.get_expiry_hours *)
GetExpiryHours(file_size_mb) == ExpiryFrom(file_size_mb, 1)

(***************************************************************************)
(* State.                                                                  *)
(***************************************************************************)
VARIABLES
    now,             \* the wall clock, in hours
    files,           \* the paths that exist on disk
    temp_links,      \* EnhancedDownloadManager.temp_links: link id -> record
    download_index,  \* EnhancedDownloadManager.download_index: signature -> record
    links_file,      \* the content of TEMP_LINKS_FILE
    index_file,      \* the content of DOWNLOAD_INDEX_FILE
    issued,          \* the link ids uuid4 has handed out
    nfiles,          \* the number of artifacts the fetcher has written
    req,             \* the download_file requests in flight
    sub,             \* the index() submissions in flight
    reaper,          \* the cleanup thread's pass
    sends            \* link id -> number of completed send_file calls

mainVars == <<now, files, temp_links, download_index, links_file, index_file,
              issued, nfiles, req, sub, reaper, sends>>

VARIABLES
    disk,            \* the registry's files: TEMP_LINKS_FILE, its .tmp and its .bak
    registry,        \* temp_links of the process whose saves are followed step by step
    saver,           \* the position of that process in safe_save_temp_links
    idx_disk,        \* the cache index's file DOWNLOAD_INDEX_FILE
    idx_mem,         \* download_index of that process: the signatures it holds
    idx_saver        \* the position of that process in save_download_index

persistVars == <<disk, registry, saver, idx_disk, idx_mem, idx_saver>>

VARIABLES
    rl_now,            \* time.time(), in ticks
    ip_to_timestamps,  \* EnhancedRateLimiter.ip_to_timestamps
    rl_last,           \* the last call of allow and what it returned
    rl_admitted,       \* identifier -> the times of its admitted calls
    rl_budget,         \* the calls and clock advances left within the bounds
    hook_last          \* what the before_request hook did with the last submission

rateVars == <<rl_now, ip_to_timestamps, rl_last, rl_admitted, rl_budget, hook_last>>

VARIABLES
    last_deleted,    \* the path of the file _safe_remove_file deleted last
    sig_p,           \* a parameter set
    sig_q            \* the same parameter set with lists reordered

pureVars == <<last_deleted, sig_p, sig_q>>

VARIABLES
    size_a,          \* the size in MB of one artifact
    size_b           \* the size in MB of another artifact

tierVars == <<size_a, size_b>>

VARIABLES
    sec_now,              \* time.time() of the security manager, in seconds
    blacklist,            \* IPBlacklist.blacklist: ip -> expiry_time
    suspicious_activity,  \* IPBlacklist.suspicious_activity: ip -> timestamps
    bl_lock,              \* IPBlacklist._lock: "free", or "held" by a stuck thread
    request_counts,       \* RateLimitEnhanced.request_counts: ip -> timestamps
    blocked_until,        \* RateLimitEnhanced.blocked_until: ip -> timestamp
    sec_events,           \* ip -> the suspicious events of the last hour, by the clock
    sec_added,            \* ip -> the time of its last add_to_blacklist
    sec_last,             \* the last call of check_request_security and its outcome
    sec_budget            \* the calls and clock advances left within the bounds

secVars == <<sec_now, blacklist, suspicious_activity, bl_lock, request_counts,
             blocked_until, sec_events, sec_added, sec_last, sec_budget>>

VARIABLES
    answers,         \* the answers download_file and check_link_status have given
    late_fetches,    \* the fetch threads still running after their join timed out
    op_to_progress,  \* ProgressManager.op_to_progress
    op_to_status,    \* ProgressManager.op_to_status
    held_links,      \* the cleanup loop's view of temp_links: link id -> its condition
    held_file,       \* the link ids in the registry file, as last saved
    error_count,     \* EnhancedDownloadManager._error_count
    shutdown_flag,   \* EnhancedDownloadManager._shutdown_flag
    cleanup,         \* the cleanup thread: its place in the loop and in the pass
    closing,         \* the thread that calls shutdown(): its place in it
    current_op_id,   \* app.current_op_id
    op_call,         \* op id -> the place of the submission that carries it
    op_emit,         \* the last log line handled: whose fetch wrote it, the op id it went to
    cb,              \* the CircuitBreaker: state, failure_count, last_failure_time
    cb_now,          \* time.time() for the breaker
    cb_call,         \* the call of the wrapped function under way, and the last one's outcome
    cb_budget        \* calls made and clock advances so far

progVars == <<op_to_progress, op_to_status>>
loopVars == <<held_links, held_file, error_count, shutdown_flag, cleanup, closing>>
opVars == <<current_op_id, op_call, op_emit>>
cbVars == <<cb, cb_now, cb_call, cb_budget>>
extraVars == <<answers, late_fetches, progVars, loopVars, opVars, cbVars>>

(* the variables the actions of one part of the program leave alone *)
exceptMain ==
    <<persistVars, rateVars, last_deleted, sig_p, sig_q, tierVars, secVars, extraVars>>
exceptPersist == <<mainVars, rateVars, pureVars, tierVars, secVars, extraVars>>
exceptRate == <<mainVars, persistVars, pureVars, tierVars, secVars, extraVars>>
exceptPath ==
    <<now, temp_links, download_index, links_file, index_file, issued, nfiles, req,
      sub, reaper, sends, persistVars, rateVars, sig_p, sig_q, tierVars, secVars,
      extraVars>>
exceptSig == <<mainVars, persistVars, rateVars, last_deleted, tierVars, secVars, extraVars>>
exceptTier == <<mainVars, persistVars, rateVars, pureVars, secVars, extraVars>>
exceptSec == <<mainVars, persistVars, rateVars, pureVars, tierVars, extraVars>>
exceptExtra ==
    <<persistVars, rateVars, last_deleted, sig_p, sig_q, tierVars, secVars>>

FileName(n) == <<"f", ToString(n)>>

(* a file of the persistence layer: absent, or holding a snapshot *)
Absent == [exists |-> FALSE]
Saved(data) == [exists |-> TRUE, data |-> data]

NoPath == RelPath(<<>>)
ReqIdle == [pc |-> "idle", link_id |-> 0, file_path |-> NoPath, val |-> 0]
SubIdle == [pc |-> "idle", params |-> <<>>, filename |-> <<>>, file_size_mb |-> 0]
ReaperIdle == [pc |-> "idle", current_time |-> 0, todo |-> <<>>, expired_links |-> <<>>,
               seen |-> <<>>]

InitMain ==
    /\ now = 0
    /\ files = {}
    /\ temp_links = <<>>
    /\ download_index = [s \in {} |-> None]
    /\ links_file = Absent
    /\ index_file = Absent
    /\ issued = {}
    /\ nfiles = 0
    /\ req = [r \in Reqs |-> ReqIdle]
    /\ sub = [s \in Subs |-> SubIdle]
    /\ reaper = ReaperIdle
    /\ sends = [id \in LinkIds |-> 0]

(***************************************************************************)
(* The link registry.                                                      *)
(***************************************************************************)
PathExists(path) == path \in files

(* is_link_valid with the expiry test written >= *)
IsLinkValidExpiredAtExpiry(link_id, t) ==
    /\ link_id \in DOMAIN temp_links
    /\ t < FromIsoFormat(temp_links[link_id].expires_at)
    /\ temp_links[link_id].download_count < temp_links[link_id].max_downloads
    /\ PathExists(temp_links[link_id].file_path)

(* EnhancedDownloadManager.is_link_valid, with datetime.now() returning t *)
IsLinkValidAt(link_id, t) ==
    IF link_id \notin DOMAIN temp_links THEN FALSE
    ELSE LET link_info == temp_links[link_id]
             expiry_time == FromIsoFormat(link_info.expires_at)
         IN  IF t > expiry_time THEN FALSE
             ELSE IF link_info.download_count >= link_info.max_downloads THEN FALSE
             ELSE IF ~PathExists(link_info.file_path) THEN FALSE
             ELSE TRUE

(* EnhancedDownloadManager.is_link_valid *)
IsLinkValid(link_id) == IsLinkValidAt(link_id, now)

(* uuid.uuid4(): an id no earlier call returned *)
FreshLinkId == Cardinality(issued) + 1

(* the record generate_temp_link stores *)
NewTempLink(filename, file_size_mb) ==
    [filename       |-> filename,
     file_path      |-> PathJoin(DOWNLOAD_DIR, filename),
     file_size_mb   |-> file_size_mb,
     created_at     |-> IsoFormat(now),
     expires_at     |-> IsoFormat(now + GetExpiryHours(file_size_mb)),
     download_count |-> 0,
     max_downloads  |-> MAX_DOWNLOADS]

(* m with key k bound to v, k new or not *)
Put(m, k, v) == [x \in DOMAIN m \cup {k} |-> IF x = k THEN v ELSE m[x]]

(* m without the keys in ks *)
Drop(m, ks) == [x \in DOMAIN m \ ks |-> m[x]]

(* EnhancedDownloadManager.generate_temp_link, with its safe_save_temp_links *)
GenerateTempLink(filename, file_size_mb) ==
    /\ temp_links' = Put(temp_links, FreshLinkId, NewTempLink(filename, file_size_mb))
    /\ links_file' = Saved(temp_links')
    /\ issued' = issued \cup {FreshLinkId}

(***************************************************************************)
(* Request parameters and their signature.  A parameter value is a list    *)
(* of items or a scalar; items and scalars are numbers standing for the    *)
(* form's strings, in their sort order.                                    *)
(***************************************************************************)
ListValue(items) == [list |-> TRUE, items |-> items]
ScalarValue(v) == [list |-> FALSE, items |-> <<v>>]
NoneValue == [list |-> FALSE, items |-> <<>>]

(* the keys _signature_for_params reads *)
SignatureKeys ==
    {"product_type", "variable", "pressure_level", "year", "month", "day", "time",
     "area", "data_format"}

RECURSIVE Insert(_, _)
Insert(x, sorted) ==
    IF sorted = <<>> THEN <<x>>
    ELSE IF x <= Head(sorted) THEN <<x>> \o sorted
    ELSE <<Head(sorted)>> \o Insert(x, Tail(sorted))

RECURSIVE Sorted(_)
(* sorted(v) *)
Sorted(items) == IF items = <<>> THEN <<>> ELSE Insert(Head(items), Sorted(Tail(items)))

(* params.get(k) *)
ParamsGet(params, k) == IF k \in DOMAIN params THEN params[k] ELSE NoneValue

(* the signature with the lists left in the order submitted *)
SignatureUnsorted(params) == [k \in SignatureKeys |-> ParamsGet(params, k)]

(* EnhancedDownloadManager._signature_for_params: the canonical JSON text  *)
(* of norm, which the digest maps one to one                               *)
SignatureForParams(params) ==
    [k \in SignatureKeys |->
        LET v == ParamsGet(params, k)
        IN  IF v.list THEN ListValue(Sorted(v.items)) ELSE v]

(* InputValidator.validate_download_params: a validated submission *)
ParamsA ==
    [product_type   |-> ListValue(<<1>>),
     variable       |-> ListValue(<<1, 2>>),
     pressure_level |-> ListValue(<<1>>),
     year           |-> ListValue(<<1>>),
     month          |-> ListValue(<<1>>),
     day            |-> ListValue(<<1>>),
     time           |-> ListValue(<<1>>),
     area           |-> ListValue(<<90, -180, -90, 180>>),
     op_id          |-> ScalarValue(1),
     data_format    |-> ScalarValue(1),
     download_format |-> ScalarValue(1)]

(* the same request with the variables chosen in the other order *)
ParamsB == [ParamsA EXCEPT !.variable = ListValue(<<2, 1>>)]

SubmittedParams == {ParamsA, ParamsB}

(***************************************************************************)
(* The artifact cache, keyed by the signature of the parameters.           *)
(***************************************************************************)
(* the lookup with the test for the backing file left out *)
CheckCachedNoFileTest(params) ==
    LET sig == SignatureForParams(params)
    IN  IF sig \notin DOMAIN download_index THEN None ELSE download_index[sig]

(* the lookup keyed by the parameters as submitted, lists unsorted *)
CheckCachedUnsortedKey(params) ==
    LET sig == SignatureUnsorted(params)
    IN  IF sig \notin DOMAIN download_index THEN None
        ELSE IF PathExists(download_index[sig].file_path) THEN download_index[sig]
        ELSE None

(* EnhancedDownloadManager.check_cached *)
CheckCached(params) ==
    LET sig == SignatureForParams(params)
    IN  IF sig \notin DOMAIN download_index THEN None
        ELSE LET info == download_index[sig]
                 path == info.file_path
             IN  IF PathExists(path) THEN info ELSE None

(* a lookup that evicts the entry whose backing file is gone *)
IndexAfterCheckCachedEvicts(params) ==
    LET sig == SignatureForParams(params)
    IN  IF sig \in DOMAIN download_index /\ ~PathExists(download_index[sig].file_path)
        THEN Drop(download_index, {sig})
        ELSE download_index

(* EnhancedDownloadManager.check_cached: download_index when it returns;   *)
(* the method only reads self.download_index                               *)
IndexAfterCheckCached(params) == download_index

(* EnhancedDownloadManager.add_to_cache, with its save_download_index *)
AddToCache(params, filename, file_size_mb) ==
    /\ download_index' = Put(download_index, SignatureForParams(params),
                             [filename     |-> filename,
                              file_path    |-> PathJoin(DOWNLOAD_DIR, filename),
                              file_size_mb |-> file_size_mb,
                              created_at   |-> IsoFormat(now)])
    /\ index_file' = Saved(download_index')

(***************************************************************************)
(* index(): one submission.  The steps are the points where another        *)
(* request thread or the cleanup thread can run in between.                *)
(***************************************************************************)
InFlight == {s \in Subs : sub[s].pc # "idle"}

(* index() up to the cache lookup: a hit goes on to issue a link for the   *)
(* cached artifact, a miss goes on to the fetch                            *)
SubCheck(s, params) ==
    /\ sub[s].pc = "idle"
    /\ Cardinality(issued) + Cardinality(InFlight) < Cardinality(LinkIds)
    /\ LET cached == CheckCached(params)
       IN  sub' = [sub EXCEPT ![s] =
                     IF cached # None
                     THEN [pc |-> "hit", params |-> params, filename |-> cached.filename,
                           file_size_mb |-> cached.file_size_mb]
                     ELSE [pc |-> "fetch", params |-> params, filename |-> <<>>,
                           file_size_mb |-> 0]]
    /\ download_index' = IndexAfterCheckCached(params)
    /\ UNCHANGED exceptMain
    /\ UNCHANGED <<now, files, temp_links, links_file, index_file,
                   issued, nfiles, req, reaper, sends>>

(* index(), cache hit: generate_temp_link for the cached artifact *)
SubIssueHit(s) ==
    /\ sub[s].pc = "hit"
    /\ GenerateTempLink(sub[s].filename, sub[s].file_size_mb)
    /\ sub' = [sub EXCEPT ![s] = SubIdle]
    /\ UNCHANGED exceptMain
    /\ UNCHANGED <<now, files, download_index, index_file, nfiles, req, reaper, sends>>

(* download_with_timeout returns an artifact: download_ecmwf_data wrote a  *)
(* new file of some size into DOWNLOAD_DIR                                 *)
SubFetchOk(s, size) ==
    /\ sub[s].pc = "fetch"
    /\ nfiles < MaxFiles
    /\ nfiles' = nfiles + 1
    /\ files' = files \cup {PathJoin(DOWNLOAD_DIR, FileName(nfiles'))}
    /\ sub' = [sub EXCEPT ![s] = [@ EXCEPT !.pc = "cache",
                                           !.filename = FileName(nfiles'),
                                           !.file_size_mb = size]]
    /\ UNCHANGED exceptMain
    /\ UNCHANGED <<now, temp_links, download_index, links_file, index_file,
                   issued, req, reaper, sends>>

(* the submission after a fetch that gave no artifact goes on to add_to_cache *)
AfterFetchFailureGoesOn(s) == [sub[s] EXCEPT !.pc = "cache"]

(* index(): downloaded_file is None, DownloadError is raised *)
AfterFetchFailure(s) == SubIdle

(* download_with_timeout returns (None, None), or download_ecmwf_data      *)
(* raises: index() raises DownloadError                                    *)
SubFetchFail(s) ==
    /\ sub[s].pc = "fetch"
    /\ sub' = [sub EXCEPT ![s] = AfterFetchFailure(s)]
    /\ UNCHANGED exceptMain
    /\ UNCHANGED <<now, files, temp_links, download_index, links_file, index_file,
                   issued, nfiles, req, reaper, sends>>

(* index(), after the fetch: add_to_cache *)
SubAddToCache(s) ==
    /\ sub[s].pc = "cache"
    /\ AddToCache(sub[s].params, sub[s].filename, sub[s].file_size_mb)
    /\ sub' = [sub EXCEPT ![s] = [@ EXCEPT !.pc = "issue"]]
    /\ UNCHANGED exceptMain
    /\ UNCHANGED <<now, files, temp_links, links_file, issued, nfiles, req, reaper, sends>>

(* index(), after the fetch: generate_temp_link for the new artifact *)
SubIssue(s) ==
    /\ sub[s].pc = "issue"
    /\ GenerateTempLink(sub[s].filename, sub[s].file_size_mb)
    /\ sub' = [sub EXCEPT ![s] = SubIdle]
    /\ UNCHANGED exceptMain
    /\ UNCHANGED <<now, files, download_index, index_file, nfiles, req, reaper, sends>>

(***************************************************************************)
(* download_file(link_id): one redemption.  Flask serves requests on       *)
(* concurrent threads (threaded=True) and download_file takes no lock, so  *)
(* each read and each write of the registry is a step of its own.          *)
(***************************************************************************)
(* download_file: the is_link_valid check; an invalid link is answered 410 *)
ReqCheck(r, link_id) ==
    /\ req[r].pc = "idle"
    /\ sends[link_id] < MaxSends
    /\ req' = [req EXCEPT ![r] =
                 IF IsLinkValid(link_id)
                 THEN [@ EXCEPT !.pc = "lookup", !.link_id = link_id]
                 ELSE ReqIdle]
    /\ UNCHANGED exceptMain
    /\ UNCHANGED <<now, files, temp_links, download_index, links_file, index_file,
                   issued, nfiles, sub, reaper, sends>>

(* download_file: link_info = temp_links[link_id]; a KeyError is answered 500 *)
ReqLookup(r) ==
    /\ req[r].pc = "lookup"
    /\ req' = [req EXCEPT ![r] =
                 IF req[r].link_id \in DOMAIN temp_links
                 THEN [@ EXCEPT !.pc = "read",
                                !.file_path = temp_links[req[r].link_id].file_path]
                 ELSE ReqIdle]
    /\ UNCHANGED exceptMain
    /\ UNCHANGED <<now, files, temp_links, download_index, links_file, index_file,
                   issued, nfiles, sub, reaper, sends>>

(* increment_download_count: the membership test and the read of           *)
(* download_count; with the id gone nothing is counted and the file is sent *)
ReqRead(r) ==
    /\ req[r].pc = "read"
    /\ req' = [req EXCEPT ![r] =
                 IF req[r].link_id \in DOMAIN temp_links
                 THEN [@ EXCEPT !.pc = "write",
                                !.val = temp_links[req[r].link_id].download_count]
                 ELSE [@ EXCEPT !.pc = "send"]]
    /\ UNCHANGED exceptMain
    /\ UNCHANGED <<now, files, temp_links, download_index, links_file, index_file,
                   issued, nfiles, sub, reaper, sends>>

(* increment_download_count: the store of download_count + 1 into the      *)
(* record that was read (a record the Reaper removed meanwhile is no       *)
(* longer in the registry), then safe_save_temp_links                      *)
ReqWrite(r) ==
    /\ req[r].pc = "write"
    /\ temp_links' =
         IF req[r].link_id \in DOMAIN temp_links
         THEN [temp_links EXCEPT ![req[r].link_id].download_count = req[r].val + 1]
         ELSE temp_links
    /\ links_file' = Saved(temp_links')
    /\ req' = [req EXCEPT ![r] = [@ EXCEPT !.pc = "send"]]
    /\ UNCHANGED exceptMain
    /\ UNCHANGED <<now, files, download_index, index_file, issued, nfiles, sub,
                   reaper, sends>>

(* download_file: send_file(link_info['file_path']); a missing file raises *)
(* and is answered 500                                                     *)
ReqSend(r) ==
    /\ req[r].pc = "send"
    /\ sends' = IF PathExists(req[r].file_path)
                THEN [sends EXCEPT ![req[r].link_id] = @ + 1]
                ELSE sends
    /\ req' = [req EXCEPT ![r] = ReqIdle]
    /\ UNCHANGED exceptMain
    /\ UNCHANGED <<now, files, temp_links, download_index, links_file, index_file,
                   issued, nfiles, sub, reaper>>

(***************************************************************************)
(* The cleanup thread.  cleanup_expired_files holds self._lock, which no   *)
(* request handler takes, so the handlers' steps run between its steps.    *)
(***************************************************************************)
(* the keys of a dict in insertion order: link ids are issued in order *)
RECURSIVE KeysInOrder(_)
KeysInOrder(ids) ==
    IF ids = {} THEN <<>>
    ELSE LET least == CHOOSE x \in ids : \A y \in ids : x <= y
         IN  <<least>> \o KeysInOrder(ids \ {least})

RECURSIVE SeqToSet(_)
SeqToSet(q) == IF q = <<>> THEN {} ELSE {Head(q)} \cup SeqToSet(Tail(q))

(* EnhancedDownloadManager._safe_remove_file: the files left on disk *)
SafeRemoveFile(file_path) ==
    IF PathExists(file_path) /\ ValidateFilePath(file_path, RelPath(<<DOWNLOAD_DIR>>))
    THEN files \ {file_path}
    ELSE files

(* the test with the download count left out *)
ReaperCollectsExpiredOnly(link_info, current_time) ==
    current_time > FromIsoFormat(link_info.expires_at)

(* the test cleanup_expired_files applies to one record *)
ReaperCollects(link_info, current_time) ==
    \/ current_time > FromIsoFormat(link_info.expires_at)
    \/ link_info.download_count >= link_info.max_downloads

(* what holds of a link at the moment the scan reaches it, judged at the   *)
(* pass's current_time (history, kept for the properties of a pass; the    *)
(* code does not store it)                                                 *)
Observed(link_id) ==
    LET link_info == temp_links[link_id]
    IN  [invalid   |-> ~IsLinkValidAt(link_id, reaper.current_time),
         expired   |-> reaper.current_time > FromIsoFormat(link_info.expires_at),
         exhausted |-> link_info.download_count >= link_info.max_downloads,
         missing   |-> ~PathExists(link_info.file_path)]

(* cleanup_expired_files: current_time = datetime.now() and the snapshot   *)
(* list(self.temp_links.items())                                           *)
ReaperBegin ==
    /\ reaper.pc = "idle"
    /\ reaper' = [pc |-> "scan", current_time |-> now,
                  todo |-> KeysInOrder(DOMAIN temp_links), expired_links |-> <<>>,
                  seen |-> <<>>]
    /\ UNCHANGED exceptMain
    /\ UNCHANGED <<now, files, temp_links, download_index, links_file, index_file,
                   issued, nfiles, req, sub, sends>>

(* cleanup_expired_files: one iteration of the scan; the snapshot holds    *)
(* the records themselves, so download_count is read as it is now          *)
ReaperScan ==
    /\ reaper.pc = "scan"
    /\ reaper.todo # <<>>
    /\ LET link_id == Head(reaper.todo)
           link_info == temp_links[link_id]
           collect == ReaperCollects(link_info, reaper.current_time)
       IN  /\ files' = IF collect THEN SafeRemoveFile(link_info.file_path) ELSE files
           /\ reaper' = [reaper EXCEPT
                           !.todo = Tail(@),
                           !.expired_links = IF collect THEN Append(@, link_id) ELSE @,
                           !.seen = Put(@, link_id, Observed(link_id))]
    /\ UNCHANGED exceptMain
    /\ UNCHANGED <<now, temp_links, download_index, links_file, index_file,
                   issued, nfiles, req, sub, sends>>

(* cleanup_expired_files: pop the collected ids, and save if there are any *)
ReaperRemove ==
    /\ reaper.pc = "scan"
    /\ reaper.todo = <<>>
    /\ temp_links' = Drop(temp_links, SeqToSet(reaper.expired_links))
    /\ links_file' = IF reaper.expired_links # <<>> THEN Saved(temp_links')
                     ELSE links_file
    /\ reaper' = [reaper EXCEPT !.pc = "done"]
    /\ UNCHANGED exceptMain
    /\ UNCHANGED <<now, files, download_index, index_file, issued, nfiles, req, sub,
                   sends>>

(* enhanced_cleanup_loop: the pass has returned and the loop sleeps *)
ReaperSleep ==
    /\ reaper.pc = "done"
    /\ reaper' = ReaperIdle
    /\ UNCHANGED exceptMain
    /\ UNCHANGED <<now, files, temp_links, download_index, links_file, index_file,
                   issued, nfiles, req, sub, sends>>

(* the wall clock advances *)
Tick ==
    /\ now < MaxTime
    /\ now' = now + 1
    /\ UNCHANGED exceptMain
    /\ UNCHANGED <<files, temp_links, download_index, links_file, index_file,
                   issued, nfiles, req, sub, reaper, sends>>

(***************************************************************************)
(* Persistence of the link registry, step by step.  A process changes its  *)
(* temp_links and saves; it can die between any two file operations, and   *)
(* the next process starts from load_temp_links.                           *)
(***************************************************************************)
(* a file cut short while it was being written: json.load raises on it *)
Truncated == [exists |-> TRUE, torn |-> TRUE]

Parses(file) == file.exists /\ "data" \in DOMAIN file

(* the registries the followed process moves between: link id -> download  *)
(* count                                                                   *)
Registries ==
    UNION {[ids -> 0..MaxCount] : ids \in SUBSET PersistIds}

SaverIdle(old, new) == [pc |-> "idle", old |-> old, new |-> new]

IndexSigs == {"sigA", "sigB"}

InitPersist ==
    /\ disk = [live |-> Absent, tmp |-> Absent, bak |-> Absent, aside |-> Absent]
    /\ registry = <<>>
    /\ saver = SaverIdle(<<>>, <<>>)
    /\ idx_disk = [live |-> Absent, aside |-> Absent]
    /\ idx_mem = {}
    /\ idx_saver = "idle"

(* a handler changes self.temp_links and calls safe_save_temp_links; old   *)
(* is the map the last completed save wrote                                *)
SaveBegin(m) ==
    /\ saver.pc \in {"idle", "loaded", "raised"}
    /\ m # registry
    /\ registry' = m
    /\ saver' = [pc |-> "begin",
                 old |-> IF saver.pc = "raised" THEN saver.old ELSE registry,
                 new |-> m]
    /\ UNCHANGED <<disk, idx_disk, idx_mem, idx_saver>>
    /\ UNCHANGED exceptPersist

(* open(temp_file, 'w') creates or empties the staging file *)
SaveOpenTmp ==
    /\ saver.pc = "begin"
    /\ disk' = [disk EXCEPT !.tmp = Truncated]
    /\ saver' = [saver EXCEPT !.pc = "tmp_open"]
    /\ UNCHANGED <<registry, idx_disk, idx_mem, idx_saver>>
    /\ UNCHANGED exceptPersist

(* json.dump and the close of the with block *)
SaveWriteTmp ==
    /\ saver.pc = "tmp_open"
    /\ disk' = [disk EXCEPT !.tmp = Saved(registry)]
    /\ saver' = [saver EXCEPT !.pc = "tmp_written"]
    /\ UNCHANGED <<registry, idx_disk, idx_mem, idx_saver>>
    /\ UNCHANGED exceptPersist

(* if os.path.exists(TEMP_LINKS_FILE): shutil.move(TEMP_LINKS_FILE, .bak) *)
SaveMoveLive ==
    /\ saver.pc = "tmp_written"
    /\ disk' = IF disk.live.exists
               THEN [disk EXCEPT !.bak = disk.live, !.live = Absent]
               ELSE disk
    /\ saver' = [saver EXCEPT !.pc = "live_moved"]
    /\ UNCHANGED <<registry, idx_disk, idx_mem, idx_saver>>
    /\ UNCHANGED exceptPersist

(* shutil.move(temp_file, TEMP_LINKS_FILE) *)
SaveRenameTmp ==
    /\ saver.pc = "live_moved"
    /\ disk' = [disk EXCEPT !.live = disk.tmp, !.tmp = Absent]
    /\ saver' = [saver EXCEPT !.pc = "tmp_renamed"]
    /\ UNCHANGED <<registry, idx_disk, idx_mem, idx_saver>>
    /\ UNCHANGED exceptPersist

(* if os.path.exists(.bak): os.remove(.bak), and the save returns *)
SaveRemoveBak ==
    /\ saver.pc = "tmp_renamed"
    /\ disk' = [disk EXCEPT !.bak = Absent]
    /\ saver' = SaverIdle(registry, registry)
    /\ UNCHANGED <<registry, idx_disk, idx_mem, idx_saver>>
    /\ UNCHANGED exceptPersist

(* an exception in safe_save_temp_links, at any of its file operations: it *)
(* is logged and raised again, to the handler that called the operation    *)
SaveFail ==
    /\ saver.pc \in {"begin", "tmp_open", "tmp_written", "live_moved", "tmp_renamed"}
    /\ saver' = [saver EXCEPT !.pc = "raised"]
    /\ UNCHANGED <<disk, registry, idx_disk, idx_mem, idx_saver>>
    /\ UNCHANGED exceptPersist

(* add_to_cache: self.download_index[sig] = record, then the call of       *)
(* save_download_index                                                     *)
IndexSaveBegin(sig) ==
    /\ saver.pc # "crashed"
    /\ idx_saver \in {"idle", "returned"}
    /\ idx_mem' = idx_mem \cup {sig}
    /\ idx_saver' = "begin"
    /\ UNCHANGED <<disk, registry, saver, idx_disk>>
    /\ UNCHANGED exceptPersist

(* save_download_index: open(DOWNLOAD_INDEX_FILE, 'w') empties the file *)
IndexSaveOpen ==
    /\ saver.pc # "crashed"
    /\ idx_saver = "begin"
    /\ idx_disk' = [idx_disk EXCEPT !.live = Truncated]
    /\ idx_saver' = "open"
    /\ UNCHANGED <<disk, registry, saver, idx_mem>>
    /\ UNCHANGED exceptPersist

(* save_download_index: json.dump and the close; add_to_cache returns *)
IndexSaveWrite ==
    /\ saver.pc # "crashed"
    /\ idx_saver = "open"
    /\ idx_disk' = [idx_disk EXCEPT !.live = Saved(idx_mem)]
    /\ idx_saver' = "returned"
    /\ UNCHANGED <<disk, registry, saver, idx_mem>>
    /\ UNCHANGED exceptPersist

(* save_download_index: an exception at open or in json.dump is logged in  *)
(* the except block, and add_to_cache returns                              *)
IndexSaveFail ==
    /\ saver.pc # "crashed"
    /\ idx_saver \in {"begin", "open"}
    /\ idx_saver' = "returned"
    /\ UNCHANGED <<disk, registry, saver, idx_disk, idx_mem>>
    /\ UNCHANGED exceptPersist

(* DownloadManager.save_temp_links of era5.py writes the same              *)
(* TEMP_LINKS_FILE in place: a run of it that died in json.dump leaves the *)
(* file cut short                                                          *)
PlainSaveTorn ==
    /\ saver.pc = "crashed"
    /\ disk.live # Truncated
    /\ disk' = [disk EXCEPT !.live = Truncated]
    /\ UNCHANGED <<registry, saver, idx_disk, idx_mem, idx_saver>>
    /\ UNCHANGED exceptPersist

(* the process dies; its memory is gone, the files stay as they are.  With *)
(* no save under way the map before and the map being saved are the same   *)
Crash ==
    /\ saver.pc # "crashed"
    /\ saver' = IF saver.pc \in {"idle", "loaded"}
                THEN [pc |-> "crashed", old |-> registry, new |-> registry]
                ELSE [saver EXCEPT !.pc = "crashed"]
    /\ registry' = <<>>
    /\ idx_mem' = {}
    /\ idx_saver' = "idle"
    /\ UNCHANGED <<disk, idx_disk>>
    /\ UNCHANGED exceptPersist

(* EnhancedDownloadManager.load_temp_links: what it returns *)
LoadTempLinks ==
    IF Parses(disk.live) THEN disk.live.data ELSE <<>>

(* EnhancedDownloadManager.load_download_index: what it returns; the      *)
(* exception of json.load ends in safe_execute's default_return            *)
LoadDownloadIndex ==
    IF Parses(idx_disk.live) THEN idx_disk.live.data ELSE {}

(* the next process starts: __init__ calls load_temp_links, which copies a *)
(* file it cannot parse to .backup.<time>, and load_download_index         *)
Load ==
    /\ saver.pc = "crashed"
    /\ registry' = LoadTempLinks
    /\ disk' = IF disk.live.exists /\ ~Parses(disk.live)
               THEN [disk EXCEPT !.aside = disk.live]
               ELSE disk
    /\ saver' = [saver EXCEPT !.pc = "loaded"]
    /\ idx_mem' = LoadDownloadIndex
    /\ UNCHANGED <<idx_disk, idx_saver>>
    /\ UNCHANGED exceptPersist

(***************************************************************************)
(* The rate limiter.  time.time() is a float; the model counts it in ticks *)
(* of 1/TicksPerSecond s.  allow runs under self._lock, so a call is one   *)
(* step.                                                                   *)
(***************************************************************************)
WindowTicks == window_seconds * TicksPerSecond

Identifiers == {"ip1", "ip2"}

(* the amounts the clock moves by between calls *)
RateSteps == {1, TicksPerSecond, WindowTicks - 1, WindowTicks}

NoCall == [identifier |-> "", allowed |-> TRUE, retry_after |-> 0, at |-> 0,
           oldest |-> 0]

NoHook == [outcome |-> "none", fault |-> FALSE, over_limit |-> FALSE]

InitRate ==
    /\ rl_now = 0
    /\ ip_to_timestamps = <<>>
    /\ rl_last = NoCall
    /\ rl_admitted = [i \in Identifiers |-> <<>>]
    /\ rl_budget = [calls |-> 0, advances |-> 0]
    /\ hook_last = NoHook

(* while dq and dq[0] < cutoff: dq.popleft() *)
RECURSIVE PruneWindow(_, _)
PruneWindow(dq, cutoff) ==
    IF dq # <<>> /\ Head(dq) < cutoff THEN PruneWindow(Tail(dq), cutoff) ELSE dq

(* the admission test written <= *)
HasRoomOffByOne(dq) == Len(dq) <= max_requests

(* len(dq) < self.max_requests *)
HasRoom(dq) == Len(dq) < max_requests

(* int() of a number of seconds given in ticks: truncation towards zero *)
IntSeconds(ticks) ==
    IF ticks >= 0 THEN ticks \div TicksPerSecond ELSE -((-ticks) \div TicksPerSecond)

Max(a, b) == IF a >= b THEN a ELSE b

(* max(0, int(self.window_seconds - (now - dq[0]))) *)
RetryAfter(dq, t) == Max(0, IntSeconds(WindowTicks - (t - dq[1])))

(* EnhancedRateLimiter.allow(identifier): the call, the limiter's state    *)
(* after it and what it returns                                            *)
AllowBody(identifier) ==
    /\ rl_budget.calls < MaxCalls
    /\ LET stored == IF identifier \in DOMAIN ip_to_timestamps
                     THEN ip_to_timestamps[identifier] ELSE <<>>
           cutoff == rl_now - WindowTicks
           dq == PruneWindow(stored, cutoff)
       IN  IF HasRoom(dq)
           THEN /\ ip_to_timestamps' = Put(ip_to_timestamps, identifier,
                                           Append(dq, rl_now))
                /\ rl_last' = [identifier |-> identifier, allowed |-> TRUE,
                               retry_after |-> 0, at |-> rl_now, oldest |-> rl_now]
                /\ rl_admitted' = [rl_admitted EXCEPT ![identifier] = Append(@, rl_now)]
           ELSE /\ ip_to_timestamps' = Put(ip_to_timestamps, identifier, dq)
                /\ rl_last' = [identifier |-> identifier, allowed |-> FALSE,
                               retry_after |-> RetryAfter(dq, rl_now), at |-> rl_now,
                               oldest |-> dq[1]]
                /\ UNCHANGED rl_admitted
    /\ rl_budget' = [rl_budget EXCEPT !.calls = @ + 1]
    /\ UNCHANGED rl_now

(* EnhancedRateLimiter.allow(identifier), called on its own *)
Allow(identifier) ==
    /\ AllowBody(identifier)
    /\ UNCHANGED hook_last
    /\ UNCHANGED exceptRate

(* the return of allow's except branch, as a fail-closed limiter has it *)
OnFaultReject == [allowed |-> FALSE, retry_after |-> 0]

(* allow: except Exception ... return True, 0 *)
OnFault == [allowed |-> TRUE, retry_after |-> 0]

(* the identifier's calls that count at this moment: the timestamps allow  *)
(* appended that are not older than the window                             *)
OverLimit(identifier) ==
    Cardinality({j \in 1..Len(rl_admitted[identifier]) :
                    rl_admitted[identifier][j] >= rl_now - WindowTicks}) >= max_requests

(* the states allow can leave an identifier's deque in when an exception   *)
(* interrupts it: untouched, pruned in part or in full, or with the new    *)
(* timestamp appended                                                      *)
FaultPoints(identifier) ==
    LET stored == IF identifier \in DOMAIN ip_to_timestamps
                  THEN ip_to_timestamps[identifier] ELSE <<>>
        dq == PruneWindow(stored, rl_now - WindowTicks)
        pruned == {SubSeq(stored, k, Len(stored)) :
                      k \in 1..(Len(stored) - Len(dq) + 1)}
    IN  {[dq |-> q, appended |-> FALSE] : q \in pruned}
           \cup (IF HasRoom(dq) THEN {[dq |-> Append(dq, rl_now), appended |-> TRUE]}
                 ELSE {})

(* enhanced_rate_limit on a POST to index, with nothing going wrong: the   *)
(* submission passes, or RateLimitError is raised                          *)
Hook(identifier) ==
    /\ AllowBody(identifier)
    /\ hook_last' = [outcome |-> IF rl_last'.allowed THEN "admitted" ELSE "rejected",
                     fault |-> FALSE, over_limit |-> OverLimit(identifier)]
    /\ UNCHANGED exceptRate

(* enhanced_rate_limit when an exception interrupts allow: allow returns   *)
(* its except branch's value and the hook goes by it                       *)
HookAllowFault(identifier) ==
    /\ rl_budget.calls < MaxCalls
    /\ \E point \in FaultPoints(identifier) :
          /\ ip_to_timestamps' =
                IF identifier \notin DOMAIN ip_to_timestamps /\ point.dq = <<>>
                THEN ip_to_timestamps
                ELSE Put(ip_to_timestamps, identifier, point.dq)
          /\ rl_admitted' = IF point.appended
                            THEN [rl_admitted EXCEPT ![identifier] = Append(@, rl_now)]
                            ELSE rl_admitted
    /\ rl_last' = [identifier |-> identifier, allowed |-> OnFault.allowed,
                   retry_after |-> OnFault.retry_after, at |-> rl_now,
                   oldest |-> rl_now]
    /\ hook_last' = [outcome |-> IF OnFault.allowed THEN "admitted" ELSE "rejected",
                     fault |-> TRUE, over_limit |-> OverLimit(identifier)]
    /\ rl_budget' = [rl_budget EXCEPT !.calls = @ + 1]
    /\ UNCHANGED rl_now
    /\ UNCHANGED exceptRate

(* enhanced_rate_limit when allow rejects and log_security_event raises:   *)
(* except Exception logs it and the hook returns None                      *)
HookLogFault(identifier) ==
    /\ AllowBody(identifier)
    /\ ~rl_last'.allowed
    /\ hook_last' = [outcome |-> "admitted", fault |-> TRUE,
                     over_limit |-> OverLimit(identifier)]
    /\ UNCHANGED exceptRate

(* enhanced_rate_limit when an exception is raised before allow is called *)
HookFault(identifier) ==
    /\ rl_budget.calls < MaxCalls
    /\ hook_last' = [outcome |-> "admitted", fault |-> TRUE,
                     over_limit |-> OverLimit(identifier)]
    /\ rl_budget' = [rl_budget EXCEPT !.calls = @ + 1]
    /\ UNCHANGED <<rl_now, ip_to_timestamps, rl_last, rl_admitted>>
    /\ UNCHANGED exceptRate

(* time passes between two calls *)
RateTick(d) ==
    /\ rl_budget.advances < MaxAdvances
    /\ rl_now' = rl_now + d
    /\ rl_budget' = [rl_budget EXCEPT !.advances = @ + 1]
    /\ UNCHANGED <<ip_to_timestamps, rl_last, rl_admitted, hook_last>>
    /\ UNCHANGED exceptRate

(***************************************************************************)
(* _safe_remove_file on the paths a registry record can hold.  The process *)
(* runs in the directory WorkDir; DOWNLOAD_DIR is relative to it.          *)
(***************************************************************************)
WorkDir == <<"w">>

(* a directory beside DOWNLOAD_DIR whose name starts with its name *)
SiblingDir == DOWNLOAD_DIR \o <<"_", "x">>

PathComponents == {DOWNLOAD_DIR, SiblingDir, WorkDir, DOT, DOTDOT, FileName(1)}

RECURSIVE SeqsUpTo(_, _)
SeqsUpTo(S, n) ==
    IF n = 0 THEN {<<>>}
    ELSE LET shorter == SeqsUpTo(S, n - 1)
         IN  shorter \cup {Append(q, c) : q \in shorter, c \in S}

(* the values of a record's file_path *)
CandidatePaths ==
    {[abs |-> a, comps |-> q] : a \in BOOLEAN, q \in SeqsUpTo(PathComponents, MaxPathLen)}

(* os.path.abspath: the components from the root of the file system *)
Resolve(p) ==
    IF p.abs THEN NormComps(p.comps, TRUE, <<>>)
    ELSE NormComps(<<WorkDir>> \o p.comps, TRUE, <<>>)

(* the path is the directory or lies below it *)
Contained(p, dir) ==
    /\ Len(Resolve(p)) >= Len(Resolve(dir))
    /\ SubSeq(Resolve(p), 1, Len(Resolve(dir))) = Resolve(dir)

(* a file exists at the path a record holds *)
PathTouch(p) ==
    /\ files = {}
    /\ files' = {p}
    /\ last_deleted' = None
    /\ UNCHANGED exceptPath

(* cleanup_expired_files calls _safe_remove_file(file_path, filename) for  *)
(* a record it collected                                                   *)
PathSafeRemove(p) ==
    /\ p \in files
    /\ files' = SafeRemoveFile(p)
    /\ last_deleted' = IF files' # files THEN p ELSE last_deleted
    /\ UNCHANGED exceptPath

(***************************************************************************)
(* _signature_for_params on two parameter sets that differ in the order of *)
(* the items of their multi-valued fields.                                 *)
(***************************************************************************)
MultiValued ==
    {"variable", "pressure_level", "year", "month", "day", "time", "product_type"}

SigItems == {2, 3}

(* the items a parameter set holds beyond those of ParamsA *)
RECURSIVE SumLen(_, _)
SumLen(params, ks) ==
    IF ks = {} THEN 0
    ELSE LET k == CHOOSE x \in ks : TRUE
         IN  Len(params[k].items) + SumLen(params, ks \ {k})

Extra(params) == SumLen(params, MultiValued) - SumLen(ParamsA, MultiValued)

SwapAt(q, i) ==
    [j \in 1..Len(q) |-> IF j = i THEN q[i + 1] ELSE IF j = i + 1 THEN q[i] ELSE q[j]]

HasItem(q, v) == \E j \in 1..Len(q) : q[j] = v

(* one more item is selected in a field of the form *)
SigAdd(k, v) ==
    /\ Extra(sig_p) < MaxExtra
    /\ ~HasItem(sig_p[k].items, v)
    /\ sig_p' = [sig_p EXCEPT ![k] = ListValue(Append(@.items, v))]
    /\ sig_q' = [sig_q EXCEPT ![k] = ListValue(Append(@.items, v))]
    /\ UNCHANGED exceptSig

(* the second parameter set has two neighbouring items exchanged *)
SigSwap(k, i) ==
    /\ i < Len(sig_q[k].items)
    /\ sig_q' = [sig_q EXCEPT ![k] = ListValue(SwapAt(@.items, i))]
    /\ UNCHANGED sig_p
    /\ UNCHANGED exceptSig

(* InputValidator.validate_coordinate: the range test of one coordinate *)
ValidLatitude(v) == v >= MIN_LATITUDE /\ v <= MAX_LATITUDE
ValidLongitude(v) == v >= MIN_LONGITUDE /\ v <= MAX_LONGITUDE

(* the coordinates typed into the form *)
Coordinates == {-180, -90, 90, 180}

(* InputValidator.validate_area_bounds accepts the four coordinates *)
AreaBoundsOk(north, south, west, east) ==
    /\ ValidLatitude(north) /\ ValidLatitude(south)
    /\ ValidLongitude(west) /\ ValidLongitude(east)
    /\ ~(north <= south)
    /\ ~(west = east)

(* InputValidator.validate_area_bounds: [north, west, south, east] *)
ValidateAreaBounds(north, south, west, east) == ListValue(<<north, west, south, east>>)

(* one more item is selected in a field of the second parameter set only *)
SigAddOne(k, v) ==
    /\ Extra(sig_q) < MaxExtra
    /\ ~HasItem(sig_q[k].items, v)
    /\ sig_q' = [sig_q EXCEPT ![k] = ListValue(Append(@.items, v))]
    /\ UNCHANGED sig_p
    /\ UNCHANGED exceptSig

(* the second parameter set is submitted with another box *)
SigSetArea(north, south, west, east) ==
    /\ AreaBoundsOk(north, south, west, east)
    /\ sig_q' = [sig_q EXCEPT !.area = ValidateAreaBounds(north, south, west, east)]
    /\ UNCHANGED sig_p
    /\ UNCHANGED exceptSig

InitPure ==
    /\ last_deleted = None
    /\ sig_p = ParamsA
    /\ sig_q = ParamsA

(***************************************************************************)
(* get_expiry_hours on the sizes of two artifacts.                         *)
(***************************************************************************)
(* sizes in MB at, beside and between the bounds of the tiers *)
SizeProbes ==
    {0, 1, 5, 9, 10, 11, 49, 50, 51, 199, 200, 201, 499, 500, 501, 600, 999, 1000,
     1001, 2000}

InitTier ==
    /\ size_a = 0
    /\ size_b = 0

(* an artifact of the given size is fetched *)
TierSizeA(s) ==
    /\ size_a' = s
    /\ UNCHANGED size_b
    /\ UNCHANGED exceptTier

TierSizeB(s) ==
    /\ size_b' = s
    /\ UNCHANGED size_a
    /\ UNCHANGED exceptTier

(***************************************************************************)
(* The security manager: IPBlacklist, RateLimitEnhanced and                *)
(* SecurityManager.check_request_security.                                 *)
(***************************************************************************)
SecIps == {"ip1"}
RequestData == {"clean", "malicious"}
SecSteps == {1, SUSPICIOUS_WINDOW - 1}

(* a dict without entries *)
NoEntries == [i \in {} |-> 0]

Without(f, k) == [i \in DOMAIN f \ {k} |-> f[i]]
With(f, k, v) == [i \in DOMAIN f \cup {k} |-> IF i = k THEN v ELSE f[i]]

NoCheck ==
    [ip |-> "", outcome |-> "none", entered_listed |-> FALSE, rate_added |-> FALSE,
     recorded |-> FALSE, returned |-> FALSE, listed |-> FALSE, count |-> 0,
     at |-> 0, added |-> NoEntries]

InitSec ==
    /\ sec_now = 0
    /\ blacklist = NoEntries
    /\ suspicious_activity = [ip \in SecIps |-> << >>]
    /\ bl_lock = "free"
    /\ request_counts = [ip \in SecIps |-> << >>]
    /\ blocked_until = NoEntries
    /\ sec_events = [ip \in SecIps |-> << >>]
    /\ sec_added = NoEntries
    /\ sec_last = NoCheck
    /\ sec_budget = [suspicious |-> MaxSuspicious, clean |-> MaxClean,
                     adds |-> MaxAdds, advances |-> MaxSecAdvances]

(* is_blacklisted with the moment of expiry still counted as blacklisted *)
IsBlacklistedInclusive(ip, t) == ip \in DOMAIN blacklist /\ t <= blacklist[ip]

(* is_blacklisted with its comparison turned round *)
IsBlacklistedReversed(ip, t) == ip \in DOMAIN blacklist /\ t > blacklist[ip]

(* is_blacklisted: what it returns at time t *)
IsBlacklisted(ip, t) == ip \in DOMAIN blacklist /\ t < blacklist[ip]

(* is_blacklisted: the blacklist it leaves, an expired entry deleted *)
AfterIsBlacklisted(ip, t) ==
    IF ip \in DOMAIN blacklist /\ ~IsBlacklisted(ip, t)
    THEN Without(blacklist, ip)
    ELSE blacklist

(* RateLimitEnhanced.is_allowed: its answer and the state it leaves *)
IsAllowed(ip, t) ==
    LET blocked == ip \in DOMAIN blocked_until /\ t < blocked_until[ip]
        unblocked == IF ip \in DOMAIN blocked_until
                     THEN Without(blocked_until, ip) ELSE blocked_until
        requests == SelectSeq(request_counts[ip], LAMBDA x : ~(x < t - RATE_WINDOW))
    IN  IF blocked
        THEN [allowed |-> FALSE, retry_after |-> blocked_until[ip] - t,
              request_counts |-> request_counts, blocked_until |-> blocked_until]
        ELSE IF Len(requests) >= MAX_REQUESTS_PER_MINUTE
        THEN [allowed |-> FALSE, retry_after |-> block_duration,
              request_counts |-> [request_counts EXCEPT ![ip] = requests],
              blocked_until |-> With(unblocked, ip, t + block_duration)]
        ELSE [allowed |-> TRUE, retry_after |-> 0,
              request_counts |-> [request_counts EXCEPT ![ip] = Append(requests, t)],
              blocked_until |-> unblocked]

(* ThreatDetector.is_suspicious_request, by the class of the request's data *)
IsSuspiciousRequest(request_data) == request_data = "malicious"

(* record_suspicious_activity: the timestamps it keeps *)
KeptActivity(ip, t) ==
    SelectSeq(Append(suspicious_activity[ip], t), LAMBDA x : x > t - SUSPICIOUS_WINDOW)

(* the events of the last hour by the clock, the one at time t included *)
EventsOfLastHour(ip, t) ==
    SelectSeq(Append(sec_events[ip], t), LAMBDA x : x >= t - SUSPICIOUS_WINDOW)

(* record_suspicious_activity reached its threshold and calls add_to_blacklist *)
ReachedThreshold(ip, t) == Len(KeptActivity(ip, t)) >= SUSPICIOUS_THRESHOLD

(* check_request_security(request_data, ip), up to its return or to the point    *)
(* where its thread stops for good: add_to_blacklist, called from                *)
(* record_suspicious_activity inside `with self._lock', waits for the same       *)
(* threading.Lock, which is not reentrant.  A call made while the lock is held   *)
(* waits in is_blacklisted.                                                      *)
CheckRequestSecurity(ip, request_data) ==
    LET kind == IF IsSuspiciousRequest(request_data) THEN "suspicious" ELSE "clean"
        entered == ip \in DOMAIN blacklist /\ sec_now < blacklist[ip]
        r == IsAllowed(ip, sec_now)
        records == ~r.allowed \/ IsSuspiciousRequest(request_data)
        hangs == records /\ ReachedThreshold(ip, sec_now)
    IN  /\ bl_lock = "free"
        /\ sec_budget[kind] > 0
        /\ sec_budget' = [sec_budget EXCEPT ![kind] = @ - 1]
        /\ blacklist' = AfterIsBlacklisted(ip, sec_now)
        /\ IF IsBlacklisted(ip, sec_now)
           THEN UNCHANGED <<suspicious_activity, bl_lock, request_counts,
                            blocked_until, sec_events>>
           ELSE /\ request_counts' = r.request_counts
                /\ blocked_until' = r.blocked_until
                /\ suspicious_activity' =
                       IF records
                       THEN [suspicious_activity EXCEPT ![ip] = KeptActivity(ip, sec_now)]
                       ELSE suspicious_activity
                /\ sec_events' =
                       IF records
                       THEN [sec_events EXCEPT ![ip] = EventsOfLastHour(ip, sec_now)]
                       ELSE sec_events
                /\ bl_lock' = IF hangs THEN "held" ELSE "free"
        /\ sec_last' =
               [ip |-> ip,
                outcome |-> IF IsBlacklisted(ip, sec_now) THEN "blacklisted"
                            ELSE IF hangs THEN "hung"
                            ELSE IF ~r.allowed THEN "rate_limited"
                            ELSE IF records THEN "suspicious" ELSE "ok",
                entered_listed |-> entered,
                rate_added |-> request_counts'[ip] # request_counts[ip],
                recorded |-> suspicious_activity'[ip] # suspicious_activity[ip],
                returned |-> bl_lock' = "free",
                listed |-> ip \in DOMAIN blacklist' /\ sec_now < blacklist'[ip],
                count |-> Len(sec_events'[ip]),
                at |-> sec_now,
                added |-> sec_added]
        /\ UNCHANGED <<sec_now, sec_added>>
        /\ UNCHANGED exceptSec

(* add_to_blacklist(ip), called with the default duration *)
AddToBlacklist(ip) ==
    /\ bl_lock = "free"
    /\ sec_budget.adds > 0
    /\ sec_budget' = [sec_budget EXCEPT !.adds = @ - 1]
    /\ blacklist' = With(blacklist, ip, sec_now + BLACKLIST_DURATION)
    /\ sec_added' = With(sec_added, ip, sec_now)
    /\ UNCHANGED <<sec_now, suspicious_activity, bl_lock, request_counts, blocked_until,
                   sec_events, sec_last>>
    /\ UNCHANGED exceptSec

(* cleanup_expired, run by the cleanup thread of SecurityManager *)
SecCleanupExpired ==
    /\ bl_lock = "free"
    /\ \E ip \in DOMAIN blacklist : sec_now >= blacklist[ip]
    /\ blacklist' = [ip \in {i \in DOMAIN blacklist : ~(sec_now >= blacklist[i])} |->
                        blacklist[ip]]
    /\ UNCHANGED <<sec_now, suspicious_activity, bl_lock, request_counts, blocked_until,
                   sec_events, sec_added, sec_last, sec_budget>>
    /\ UNCHANGED exceptSec

SecTick(d) ==
    /\ sec_budget.advances > 0
    /\ sec_now' = sec_now + d
    /\ sec_budget' = [sec_budget EXCEPT !.advances = @ - 1]
    /\ UNCHANGED <<blacklist, suspicious_activity, bl_lock, request_counts, blocked_until,
                   sec_events, sec_added, sec_last>>
    /\ UNCHANGED exceptSec

(***************************************************************************)
(* The answers of the two routes that take a link id: download_file and    *)
(* check_link_status, each handled from its first line to its return.      *)
(***************************************************************************)
InitAnswer ==
    /\ answers = {}
    /\ late_fetches = 0
    /\ op_to_progress = NoEntries
    /\ op_to_status = NoEntries

(* what the registry holds for the id when the request arrives *)
LinkCondition(link_id) ==
    IF link_id \notin DOMAIN temp_links THEN "absent"
    ELSE IF now > FromIsoFormat(temp_links[link_id].expires_at) THEN "expired"
    ELSE IF temp_links[link_id].download_count >= temp_links[link_id].max_downloads
    THEN "exhausted"
    ELSE IF ~PathExists(temp_links[link_id].file_path) THEN "file_missing"
    ELSE "live"

(* download_file(link_id) handled without another thread in between:        *)
(* is_link_valid, increment_download_count with its save, send_file         *)
DownloadFile(link_id) ==
    /\ \A r \in Reqs : req[r].pc = "idle"
    /\ sends[link_id] < MaxSends
    /\ IF ~IsLinkValid(link_id)
       THEN /\ answers' = answers \cup
                   {[route |-> "download_file", condition |-> LinkCondition(link_id),
                     code |-> "410", message |-> "link expired or invalid"]}
            /\ UNCHANGED <<temp_links, links_file, sends>>
       ELSE /\ temp_links' = [temp_links EXCEPT ![link_id].download_count = @ + 1]
            /\ links_file' = Saved(temp_links')
            /\ sends' = [sends EXCEPT ![link_id] = @ + 1]
            /\ answers' = answers \cup
                   {[route |-> "download_file", condition |-> LinkCondition(link_id),
                     code |-> "200", message |-> "file"]}
    /\ UNCHANGED <<now, files, download_index, index_file, issued, nfiles, req, sub,
                   reaper>>
    /\ UNCHANGED <<late_fetches, progVars, loopVars, opVars, cbVars>>
    /\ UNCHANGED exceptExtra

(* check_link_status(link_id) *)
CheckLinkStatus(link_id) ==
    /\ answers' = answers \cup
           {[route |-> "check_link_status", condition |-> LinkCondition(link_id),
             code |-> "200",
             message |-> IF link_id \notin DOMAIN temp_links THEN "link does not exist"
                         ELSE IF IsLinkValid(link_id) THEN "valid"
                         ELSE "link expired or download limit reached"]}
    /\ UNCHANGED mainVars
    /\ UNCHANGED <<late_fetches, progVars, loopVars, opVars, cbVars>>
    /\ UNCHANGED exceptExtra

(***************************************************************************)
(* ProgressManager.  A fraction is given in hundredths.                    *)
(***************************************************************************)
OpIds == {"op_a", "op_b"}
Statuses == {"submitted", "accepted", "running", "successful", "failed", "queued"}
Hundredths == {-5, 0, 48, 100, 150}

Min(a, b) == IF a <= b THEN a ELSE b

(* the mapping of set_status, mapping.get(status, 1) *)
StatusBase(status) ==
    CASE status = "submitted"  -> 1
      [] status = "accepted"   -> 10
      [] status = "running"    -> 35
      [] status = "successful" -> 90
      [] status = "failed"     -> 100
      [] OTHER                 -> 1

(* op_to_progress.get(op_id, 0), the 'progress' of ProgressManager.get *)
ProgressOf(op_id) == IF op_id \in DOMAIN op_to_progress THEN op_to_progress[op_id] ELSE 0

ProgressFrame ==
    /\ UNCHANGED <<answers, late_fetches, loopVars, opVars, cbVars>>
    /\ UNCHANGED mainVars
    /\ UNCHANGED exceptExtra

(* the two dicts after ProgressManager.init, set_status, set_fraction and   *)
(* complete                                                                *)
AfterInit(progress, status, op_id) ==
    [progress |-> With(progress, op_id, 0), status |-> With(status, op_id, "submitted")]

AfterSetStatus(progress, status, op_id, value) ==
    [progress |-> With(progress, op_id,
                       Max(IF op_id \in DOMAIN progress THEN progress[op_id] ELSE 0,
                           StatusBase(value))),
     status   |-> With(status, op_id, value)]

AfterSetFraction(progress, status, op_id, hundredths) ==
    [progress |-> With(progress, op_id,
                       Max(IF op_id \in DOMAIN progress THEN progress[op_id] ELSE 0,
                           Max(0, Min(100, hundredths)))),
     status   |-> status]

AfterComplete(progress, status, op_id) ==
    [progress |-> With(progress, op_id, 100), status |-> With(status, op_id, "successful")]

ProgressInit(op_id) ==
    /\ op_to_progress' = AfterInit(op_to_progress, op_to_status, op_id).progress
    /\ op_to_status' = AfterInit(op_to_progress, op_to_status, op_id).status
    /\ ProgressFrame

ProgressSetStatus(op_id, status) ==
    /\ op_to_status' = AfterSetStatus(op_to_progress, op_to_status, op_id, status).status
    /\ op_to_progress' =
           AfterSetStatus(op_to_progress, op_to_status, op_id, status).progress
    /\ ProgressFrame

ProgressSetFraction(op_id, hundredths) ==
    /\ op_to_progress' =
           AfterSetFraction(op_to_progress, op_to_status, op_id, hundredths).progress
    /\ UNCHANGED op_to_status
    /\ ProgressFrame

ProgressComplete(op_id) ==
    /\ op_to_status' = AfterComplete(op_to_progress, op_to_status, op_id).status
    /\ op_to_progress' = AfterComplete(op_to_progress, op_to_status, op_id).progress
    /\ ProgressFrame

(***************************************************************************)
(* The cleanup loop with its faults.  A link is held with the condition    *)
(* the pass finds it in: "live", "expired" (its expires_at has passed),    *)
(* "exhausted" (download_count has reached max_downloads) or "malformed"   *)
(* (a record whose expires_at does not parse, loaded from a damaged file). *)
(***************************************************************************)
HeldIds == {1, 2}
Conditions == {"live", "expired", "exhausted", "malformed"}

CleanupAt(pc) ==
    [pc |-> pc, todo |-> << >>, expired_links |-> << >>, seen |-> NoEntries,
     faulted |-> FALSE, saves |-> 0, errors_before |-> 0, left |-> {}]

ClosingAt(pc) == [pc |-> pc, todo |-> << >>, expired_links |-> << >>, at_call |-> {}]

InitCleanup ==
    /\ held_links = NoEntries
    /\ held_file = {}
    /\ error_count = 0
    /\ shutdown_flag = FALSE
    /\ cleanup = CleanupAt("test")
    /\ closing = ClosingAt("idle")

ClosingFrame ==
    /\ UNCHANGED <<answers, late_fetches, progVars, opVars, cbVars>>
    /\ UNCHANGED mainVars
    /\ UNCHANGED exceptExtra

LoopFrame ==
    /\ UNCHANGED closing
    /\ UNCHANGED <<answers, late_fetches, progVars, opVars, cbVars>>
    /\ UNCHANGED mainVars
    /\ UNCHANGED exceptExtra

(* a link enters the map: generate_temp_link with its save, or a record of   *)
(* the registry file found at start; the id it is given names this link from *)
(* now on, and no longer a link shutdown() was called with                   *)
LinkAppears(link_id, condition) ==
    /\ link_id \notin DOMAIN held_links
    /\ condition \in {"live", "malformed"}
    /\ held_links' = With(held_links, link_id, condition)
    /\ held_file' = DOMAIN held_links'
    /\ closing' = [closing EXCEPT !.at_call = @ \ {link_id}]
    /\ UNCHANGED <<error_count, shutdown_flag, cleanup>>
    /\ ClosingFrame

(* the clock passes a live link's expires_at, or its last download is counted *)
LinkLapses(link_id, condition) ==
    /\ link_id \in DOMAIN held_links
    /\ held_links[link_id] = "live"
    /\ condition \in {"expired", "exhausted"}
    /\ held_links' = With(held_links, link_id, condition)
    /\ UNCHANGED <<held_file, error_count, shutdown_flag, cleanup>>
    /\ LoopFrame

(* while True in place of the test of the flag *)
LoopConditionTrue(flag) == TRUE

(* enhanced_cleanup_loop: while not self._shutdown_flag.is_set() *)
LoopCondition(flag) == ~flag

(* the loop tests its condition: it goes on to call cleanup_expired_files,   *)
(* or it ends                                                                *)
LoopTest ==
    /\ cleanup.pc = "test"
    /\ cleanup' = [cleanup EXCEPT !.pc = IF LoopCondition(shutdown_flag) THEN "call"
                                         ELSE "exited"]
    /\ UNCHANGED <<held_links, held_file, error_count, shutdown_flag>>
    /\ LoopFrame

(* cleanup_expired_files begins: the lock is taken and the items are listed *)
PassBegin ==
    /\ cleanup.pc = "call"
    /\ closing.pc # "scan"
    /\ cleanup' = [CleanupAt("scan") EXCEPT
                     !.todo = KeysInOrder(DOMAIN held_links),
                     !.errors_before = error_count]
    /\ UNCHANGED <<held_links, held_file, error_count, shutdown_flag>>
    /\ LoopFrame

(* the test with the download count left out *)
CollectsExpiredOnly(condition) == condition = "expired"

(* current_time > expiry_time or download_count >= max_downloads *)
Collects(condition) == condition \in {"expired", "exhausted"}

(* the inner except left without the append *)
OnLinkFaultSkips(expired_links, link_id) == expired_links

(* the inner except: expired_links.append(link_id) *)
OnLinkFault(expired_links, link_id) == Append(expired_links, link_id)

(* one iteration of the scan: fromisoformat raises on a malformed record *)
PassScan ==
    /\ cleanup.pc = "scan"
    /\ cleanup.todo # << >>
    /\ LET link_id == Head(cleanup.todo)
           condition == held_links[link_id]
       IN  cleanup' = [cleanup EXCEPT
                         !.todo = Tail(@),
                         !.expired_links =
                             IF condition = "malformed" THEN OnLinkFault(@, link_id)
                             ELSE IF Collects(condition)
                             THEN Append(@, link_id)
                             ELSE @,
                         !.faulted = @ \/ condition = "malformed",
                         !.seen = With(@, link_id, condition)]
    /\ UNCHANGED <<held_links, held_file, error_count, shutdown_flag>>
    /\ LoopFrame

(* the save is made after every pass *)
SavesAlways(expired_links) == TRUE

(* if expired_links: self.safe_save_temp_links() *)
SavesAfterPass(expired_links) == expired_links # << >>

(* the outer except with the flag left alone *)
FlagNeverSet(flag, count) == flag

(* the outer except: if self._error_count > self._max_errors: set the flag *)
FlagAfterFault(flag, count) == flag \/ count > max_errors

(* the end of the pass: the collected ids are popped and the map is saved   *)
(* if there are any; raised tells whether safe_save_temp_links raised, which *)
(* the outer except counts                                                   *)
PassEnd(raised) ==
    /\ cleanup.pc = "scan"
    /\ cleanup.todo = << >>
    /\ raised => SavesAfterPass(cleanup.expired_links)
    /\ held_links' = Drop(held_links, SeqToSet(cleanup.expired_links))
    /\ held_file' = IF SavesAfterPass(cleanup.expired_links) /\ ~raised
                    THEN DOMAIN held_links' ELSE held_file
    /\ error_count' = IF raised THEN error_count + 1 ELSE error_count
    /\ shutdown_flag' = IF raised THEN FlagAfterFault(shutdown_flag, error_count')
                        ELSE shutdown_flag
    /\ cleanup' = [cleanup EXCEPT
                     !.pc = "wait",
                     !.saves = IF SavesAfterPass(cleanup.expired_links) THEN 1 ELSE 0,
                     !.left = DOMAIN held_links']
    /\ LoopFrame

(* self._shutdown_flag.wait(timeout=CLEANUP_INTERVAL) returns: the interval  *)
(* has passed or the flag is set                                             *)
LoopWake ==
    /\ cleanup.pc = "wait"
    /\ cleanup' = [cleanup EXCEPT !.pc = "test"]
    /\ UNCHANGED <<held_links, held_file, error_count, shutdown_flag>>
    /\ LoopFrame

(* shutdown(): self._shutdown_flag.set() *)
ShutdownSetsFlag ==
    /\ ~shutdown_flag
    /\ shutdown_flag' = TRUE
    /\ UNCHANGED <<held_links, held_file, error_count, cleanup>>
    /\ LoopFrame

(* shutdown(): the flag is set; the links that are expired or exhausted now  *)
(* are noted for the properties of shutdown                                  *)
ShutdownCall ==
    /\ closing.pc = "idle"
    /\ shutdown_flag' = TRUE
    /\ closing' = [ClosingAt("join") EXCEPT
                     !.at_call = {link_id \in DOMAIN held_links :
                                      held_links[link_id] \in {"expired", "exhausted"}}]
    /\ UNCHANGED <<held_links, held_file, error_count, cleanup>>
    /\ ClosingFrame

(* shutdown(): cleanup_thread.join(timeout=10) returns, the loop ended or not; *)
(* the final cleanup_expired_files begins once the lock is free                *)
ShutdownFinalBegin ==
    /\ closing.pc = "join"
    /\ cleanup.pc # "scan"
    /\ closing' = [closing EXCEPT !.pc = "scan", !.todo = KeysInOrder(DOMAIN held_links)]
    /\ UNCHANGED <<held_links, held_file, error_count, shutdown_flag, cleanup>>
    /\ ClosingFrame

(* the final pass: one iteration of the scan *)
ShutdownFinalScan ==
    /\ closing.pc = "scan"
    /\ closing.todo # << >>
    /\ LET link_id == Head(closing.todo)
           condition == held_links[link_id]
       IN  closing' = [closing EXCEPT
                         !.todo = Tail(@),
                         !.expired_links =
                             IF condition = "malformed" THEN OnLinkFault(@, link_id)
                             ELSE IF Collects(condition)
                             THEN Append(@, link_id)
                             ELSE @]
    /\ UNCHANGED <<held_links, held_file, error_count, shutdown_flag, cleanup>>
    /\ ClosingFrame

(* the final pass ends as a pass of the loop does, and shutdown() returns:   *)
(* safe_execute swallows nothing here, the pass has its own outer except     *)
ShutdownFinalEnd(raised) ==
    /\ closing.pc = "scan"
    /\ closing.todo = << >>
    /\ raised => SavesAfterPass(closing.expired_links)
    /\ held_links' = Drop(held_links, SeqToSet(closing.expired_links))
    /\ held_file' = IF SavesAfterPass(closing.expired_links) /\ ~raised
                    THEN DOMAIN held_links' ELSE held_file
    /\ error_count' = IF raised THEN error_count + 1 ELSE error_count
    /\ shutdown_flag' = IF raised THEN FlagAfterFault(shutdown_flag, error_count')
                        ELSE shutdown_flag
    /\ closing' = [closing EXCEPT !.pc = "returned"]
    /\ UNCHANGED cleanup
    /\ ClosingFrame

(***************************************************************************)
(* download_with_timeout: the join of the fetch thread times out.          *)
(***************************************************************************)
(* thread.join(timeout=300) returns with the thread alive: (None, None) is  *)
(* returned and the thread is left running                                  *)
SubFetchTimeout(s) ==
    /\ sub[s].pc = "fetch"
    /\ late_fetches < MaxFiles
    /\ late_fetches' = late_fetches + 1
    /\ sub' = [sub EXCEPT ![s] = AfterFetchFailure(s)]
    /\ UNCHANGED <<now, files, temp_links, download_index, links_file, index_file,
                   issued, nfiles, req, reaper, sends>>
    /\ UNCHANGED <<answers, progVars, loopVars, opVars, cbVars>>
    /\ UNCHANGED exceptExtra

(* a thread left running ends: download_ecmwf_data wrote its file into      *)
(* DOWNLOAD_DIR, or raised; its result list is read by nobody               *)
LateFetchEnds(written) ==
    /\ late_fetches > 0
    /\ late_fetches' = late_fetches - 1
    /\ IF written /\ nfiles < MaxFiles
       THEN /\ nfiles' = nfiles + 1
            /\ files' = files \cup {PathJoin(DOWNLOAD_DIR, FileName(nfiles'))}
       ELSE UNCHANGED <<nfiles, files>>
    /\ UNCHANGED <<now, temp_links, download_index, links_file, index_file, issued,
                   req, sub, reaper, sends>>
    /\ UNCHANGED <<answers, progVars, loopVars, opVars, cbVars>>
    /\ UNCHANGED exceptExtra

vars == <<mainVars, persistVars, rateVars, pureVars, tierVars, secVars, extraVars>>

(***************************************************************************)
(* The op id of the submission being tracked.  index() stores the op id of *)
(* the form in app.current_op_id; the log handler, called on whatever      *)
(* thread writes a log line, reads it from there.                          *)
(***************************************************************************)
LogLines == {"accepted", "running", "successful", "percent"}

NoEmit == [by |-> "", under |-> ""]

InitOp ==
    /\ current_op_id = ""
    /\ op_call = [op_id \in OpIds |-> "idle"]
    /\ op_emit = NoEmit

OpFrame ==
    /\ UNCHANGED <<answers, late_fetches, loopVars, cbVars>>
    /\ UNCHANGED mainVars
    /\ UNCHANGED exceptExtra

(* index(): app.current_op_id = op_id, progress_manager.init(op_id) and    *)
(* set_status(op_id, 'submitted')                                          *)
OpSubmit(op_id) ==
    /\ op_call[op_id] = "idle"
    /\ current_op_id' = op_id
    /\ LET inited == AfterInit(op_to_progress, op_to_status, op_id)
           set == AfterSetStatus(inited.progress, inited.status, op_id, "submitted")
       IN  /\ op_to_progress' = set.progress
           /\ op_to_status' = set.status
    /\ op_call' = [op_call EXCEPT ![op_id] = "submitted"]
    /\ UNCHANGED op_emit
    /\ OpFrame

(* download_ecmwf_data(params, op_id): app.current_op_id = op_id, just     *)
(* before c.retrieve                                                       *)
OpFetchBegin(op_id) ==
    /\ op_call[op_id] = "submitted"
    /\ current_op_id' = op_id
    /\ op_call' = [op_call EXCEPT ![op_id] = "fetching"]
    /\ UNCHANGED <<op_emit, progVars>>
    /\ OpFrame

(* CDSProgressLogHandler.emit: op_id = getattr(app, 'current_op_id', None) *)
EmitTarget(op_id) == current_op_id

(* CDSProgressLogHandler.emit for a line that the fetch of op_id logs      *)
(* during c.retrieve or result.download                                    *)
OpEmit(op_id, line) ==
    /\ op_call[op_id] = "fetching"
    /\ LET target == EmitTarget(op_id)
           after ==
             CASE line = "successful" ->
                    LET set == AfterSetStatus(op_to_progress, op_to_status, target,
                                              "successful")
                    IN  AfterComplete(set.progress, set.status, target)
               [] line = "percent" ->
                    AfterSetFraction(op_to_progress, op_to_status, target, 48)
               [] OTHER ->
                    AfterSetStatus(op_to_progress, op_to_status, target, line)
       IN  /\ target # ""
           /\ op_to_progress' = after.progress
           /\ op_to_status' = after.status
           /\ op_emit' = [by |-> op_id, under |-> target]
    /\ UNCHANGED <<current_op_id, op_call>>
    /\ OpFrame

(* the fetch returns or raises, and index() answers *)
OpFetchEnd(op_id) ==
    /\ op_call[op_id] = "fetching"
    /\ op_call' = [op_call EXCEPT ![op_id] = "idle"]
    /\ UNCHANGED <<current_op_id, op_emit, progVars>>
    /\ OpFrame

NextOp ==
    \/ \E op_id \in OpIds : OpSubmit(op_id)
    \/ \E op_id \in OpIds : OpFetchBegin(op_id)
    \/ \E op_id \in OpIds : \E line \in LogLines : OpEmit(op_id, line)
    \/ \E op_id \in OpIds : OpFetchEnd(op_id)

(***************************************************************************)
(* CircuitBreaker, with the defaults of its constructor, around a function *)
(* that returns or raises.  One caller: a call is the wrapper up to the    *)
(* call of the function, then the function's end with _on_success or       *)
(* _on_failure.  Time is in seconds.                                       *)
(***************************************************************************)
failure_threshold == 5
recovery_timeout == 60

MaxBreakerCalls == 7
MaxBreakerAdvances == 2

BreakerSteps == {1, recovery_timeout - 1, recovery_timeout}

(* last: how the last call ended; run: the failing calls since the last    *)
(* success; trial: the last call was made from HALF_OPEN (history)         *)
CallAt(pc, last, run, trial) == [pc |-> pc, last |-> last, run |-> run, trial |-> trial]

(* failed = FALSE stands for last_failure_time = None *)
InitBreaker ==
    /\ cb = [state |-> "CLOSED", failure_count |-> 0, failed |-> FALSE,
             last_failure_time |-> 0]
    /\ cb_now = 0
    /\ cb_call = CallAt("idle", "none", 0, FALSE)
    /\ cb_budget = [calls |-> 0, advances |-> 0]

BreakerFrame ==
    /\ UNCHANGED <<answers, late_fetches, progVars, loopVars, opVars>>
    /\ UNCHANGED mainVars
    /\ UNCHANGED exceptExtra

(* the test written with > *)
ShouldAttemptResetStrict(t) == t - cb.last_failure_time > recovery_timeout

(* CircuitBreaker._should_attempt_reset *)
ShouldAttemptReset(t) == t - cb.last_failure_time >= recovery_timeout

(* CircuitBreaker._on_success *)
OnSuccess == [cb EXCEPT !.failure_count = 0, !.state = "CLOSED"]

(* CircuitBreaker._on_failure *)
OnFailure ==
    [cb EXCEPT !.failure_count = @ + 1,
               !.failed = TRUE,
               !.last_failure_time = cb_now,
               !.state = IF cb.failure_count + 1 >= failure_threshold THEN "OPEN" ELSE @]

(* wrapper, up to the call of func: an OPEN breaker refuses with           *)
(* SystemError or goes to HALF_OPEN                                        *)
BreakerEnter ==
    /\ cb_call.pc = "idle"
    /\ cb_budget.calls < MaxBreakerCalls
    /\ cb_budget' = [cb_budget EXCEPT !.calls = @ + 1]
    /\ IF cb.state = "OPEN"
       THEN IF ShouldAttemptReset(cb_now)
            THEN /\ cb' = [cb EXCEPT !.state = "HALF_OPEN"]
                 /\ cb_call' = CallAt("running", cb_call.last, cb_call.run, TRUE)
            ELSE /\ cb_call' = CallAt("idle", "refused", cb_call.run, FALSE)
                 /\ UNCHANGED cb
       ELSE /\ cb_call' = CallAt("running", cb_call.last, cb_call.run, FALSE)
            /\ UNCHANGED cb
    /\ UNCHANGED cb_now
    /\ BreakerFrame

(* wrapper, from the return of func: _on_success and the result, or        *)
(* _on_failure and the exception raised again                              *)
BreakerReturn(ok) ==
    /\ cb_call.pc = "running"
    /\ cb' = IF ok THEN OnSuccess ELSE OnFailure
    /\ cb_call' = IF ok THEN CallAt("idle", "returned", 0, cb_call.trial)
                  ELSE CallAt("idle", "raised", cb_call.run + 1, cb_call.trial)
    /\ UNCHANGED <<cb_now, cb_budget>>
    /\ BreakerFrame

(* time passes *)
BreakerTick(d) ==
    /\ cb_budget.advances < MaxBreakerAdvances
    /\ cb_budget' = [cb_budget EXCEPT !.advances = @ + 1]
    /\ cb_now' = cb_now + d
    /\ UNCHANGED <<cb, cb_call>>
    /\ BreakerFrame

NextBreaker ==
    \/ BreakerEnter
    \/ \E ok \in BOOLEAN : BreakerReturn(ok)
    \/ \E d \in BreakerSteps : BreakerTick(d)

Init == InitMain /\ InitPersist /\ InitRate /\ InitPure /\ InitTier /\ InitSec /\ InitAnswer
        /\ InitCleanup /\ InitOp /\ InitBreaker

(* SpecOp: two submissions with their own op ids, on concurrent threads *)
SpecOp == Init /\ [][NextOp]_vars

(* SpecBreaker: calls of a function wrapped in a CircuitBreaker, one at a  *)
(* time, as time passes                                                    *)
SpecBreaker == Init /\ [][NextBreaker]_vars

SubNext(s) ==
    \/ \E params \in SubmittedParams : SubCheck(s, params)
    \/ SubIssueHit(s)
    \/ \E size \in Sizes : SubFetchOk(s, size)
    \/ SubFetchFail(s)
    \/ SubAddToCache(s)
    \/ SubIssue(s)

ReqNext(r) ==
    \/ \E link_id \in LinkIds : ReqCheck(r, link_id)
    \/ ReqLookup(r)
    \/ ReqRead(r)
    \/ ReqWrite(r)
    \/ ReqSend(r)

ReaperNext ==
    \/ ReaperBegin
    \/ ReaperScan
    \/ ReaperRemove
    \/ ReaperSleep

(***************************************************************************)
(* Spec: one submitting client and one downloading client, the cleanup     *)
(* thread and the clock, in every interleaving of their steps.             *)
(***************************************************************************)
Next ==
    \/ Tick
    \/ SubNext("s1")
    \/ ReqNext("r1")
    \/ ReaperNext

Spec == Init /\ [][Next]_vars

(***************************************************************************)
(* SpecRedeem: two download_file requests running concurrently on the      *)
(* links one submitting client obtains, while no link expires.             *)
(***************************************************************************)
NextRedeem ==
    \/ SubNext("s1")
    \/ \E r \in Reqs : ReqNext(r)

SpecRedeem == Init /\ [][NextRedeem]_vars

(***************************************************************************)
(* SpecPersist: saves of the link registry, crashes and restarts.          *)
(***************************************************************************)
NextPersist ==
    \/ \E m \in Registries : SaveBegin(m)
    \/ SaveOpenTmp
    \/ SaveWriteTmp
    \/ SaveMoveLive
    \/ SaveRenameTmp
    \/ SaveRemoveBak
    \/ Crash
    \/ Load

SpecPersist == Init /\ [][NextPersist]_vars

(***************************************************************************)
(* SpecRecover: one link and the cache index, with saves that fail, a      *)
(* registry file left cut short, crashes and restarts.                     *)
(***************************************************************************)
RecoverRegistries == {m \in Registries : DOMAIN m \subseteq {1}}

NextRecover ==
    \/ \E m \in RecoverRegistries : SaveBegin(m)
    \/ SaveOpenTmp
    \/ SaveWriteTmp
    \/ SaveMoveLive
    \/ SaveRenameTmp
    \/ SaveRemoveBak
    \/ SaveFail
    \/ \E sig \in IndexSigs : IndexSaveBegin(sig)
    \/ IndexSaveOpen
    \/ IndexSaveWrite
    \/ IndexSaveFail
    \/ PlainSaveTorn
    \/ Crash
    \/ Load

SpecRecover == Init /\ [][NextRecover]_vars

(***************************************************************************)
(* SpecRate: calls of allow by two identifiers as time passes.             *)
(***************************************************************************)
NextRate ==
    \/ \E i \in Identifiers : Allow(i)
    \/ \E d \in RateSteps : RateTick(d)

SpecRate == Init /\ [][NextRate]_vars

(***************************************************************************)
(* SpecRateFault: submissions passing the before_request hook, with        *)
(* exceptions raised inside the rate-limit check.                          *)
(***************************************************************************)
NextRateFault ==
    \/ \E i \in Identifiers : Hook(i)
    \/ \E i \in Identifiers : HookAllowFault(i)
    \/ \E i \in Identifiers : HookLogFault(i)
    \/ \E i \in Identifiers : HookFault(i)
    \/ \E d \in RateSteps : RateTick(d)

SpecRateFault == Init /\ [][NextRateFault]_vars

(***************************************************************************)
(* SpecPath: files appear at the paths records hold and the cleanup tries  *)
(* to remove them.                                                         *)
(***************************************************************************)
NextPath ==
    \/ \E p \in CandidatePaths : PathTouch(p)
    \/ \E p \in CandidatePaths : PathSafeRemove(p)

SpecPath == Init /\ [][NextPath]_vars

(***************************************************************************)
(* SpecSig: parameter sets and their reorderings.                          *)
(***************************************************************************)
NextSig ==
    \/ \E k \in MultiValued, v \in SigItems :
          SigAdd(k, v)
    \/ \E k \in MultiValued, i \in 1..(MaxExtra + 1) :
          SigSwap(k, i)

SpecSig == Init /\ [][NextSig]_vars

(***************************************************************************)
(* SpecTier: the expiry tiers of two artifacts of any sizes.               *)
(***************************************************************************)
NextTier ==
    \/ \E s \in SizeProbes : TierSizeA(s)
    \/ \E s \in SizeProbes : TierSizeB(s)

SpecTier == Init /\ [][NextTier]_vars

(***************************************************************************)
(* SpecSigPair: a base request and a second request that differs from it   *)
(* in the items selected, in their order and in the box.                   *)
(***************************************************************************)
NextSigPair ==
    \/ \E k \in MultiValued, v \in SigItems : SigAddOne(k, v)
    \/ \E k \in MultiValued, i \in 1..(MaxExtra + 1) : SigSwap(k, i)
    \/ \E north, south, west, east \in Coordinates :
          SigSetArea(north, south, west, east)

SpecSigPair == Init /\ [][NextSigPair]_vars

(***************************************************************************)
(* The security manager on its own: requests, direct blacklisting, the     *)
(* cleanup thread and the clock.                                           *)
(***************************************************************************)
NextSecurity ==
    \/ \E ip \in SecIps, request_data \in RequestData :
           CheckRequestSecurity(ip, request_data)
    \/ \E ip \in SecIps : AddToBlacklist(ip)
    \/ SecCleanupExpired
    \/ \E d \in SecSteps : SecTick(d)

SpecSecurity == Init /\ [][NextSecurity]_vars

(***************************************************************************)
(* The two link routes answering one client at a time, on the links one    *)
(* submitting client obtains, while the clock runs.                        *)
(***************************************************************************)
NextAnswer ==
    \/ Tick
    \/ SubNext("s1")
    \/ \E link_id \in LinkIds : DownloadFile(link_id)
    \/ \E link_id \in LinkIds : CheckLinkStatus(link_id)

SpecAnswer == Init /\ [][NextAnswer]_vars

(***************************************************************************)
(* One submitting client whose fetch may fail or time out, the fetch       *)
(* threads left behind, one downloading client and the clock.              *)
(***************************************************************************)
NextFetch ==
    \/ Tick
    \/ SubNext("s1")
    \/ SubFetchTimeout("s1")
    \/ \E written \in BOOLEAN : LateFetchEnds(written)
    \/ \E link_id \in LinkIds : DownloadFile(link_id)

SpecFetch == Init /\ [][NextFetch]_vars

(***************************************************************************)
(* The ProgressManager under every sequence of calls for two op ids; init  *)
(* is what index() calls for each submission, with the op id of the form.  *)
(***************************************************************************)
NextProgress ==
    \E op_id \in OpIds :
        \/ ProgressInit(op_id)
        \/ \E status \in Statuses : ProgressSetStatus(op_id, status)
        \/ \E hundredths \in Hundredths : ProgressSetFraction(op_id, hundredths)
        \/ ProgressComplete(op_id)

SpecProgress == Init /\ [][NextProgress]_vars

(***************************************************************************)
(* The cleanup thread, the links that come and lapse, and shutdown().      *)
(* The second specification adds that the cleanup thread, which nothing    *)
(* blocks, keeps taking its steps.                                         *)
(***************************************************************************)
LoopStep ==
    \/ LoopTest
    \/ PassBegin
    \/ PassScan
    \/ \E raised \in BOOLEAN : PassEnd(raised)
    \/ LoopWake

NextCleanup ==
    \/ LoopStep
    \/ \E link_id \in HeldIds, condition \in Conditions : LinkAppears(link_id, condition)
    \/ \E link_id \in HeldIds, condition \in Conditions : LinkLapses(link_id, condition)
    \/ ShutdownSetsFlag

SpecCleanup == Init /\ [][NextCleanup]_vars

SpecCleanupLive == SpecCleanup /\ WF_vars(LoopStep)

(***************************************************************************)
(* The cleanup thread and the links as above, with shutdown() called once  *)
(* and followed through its join and its final pass.                       *)
(***************************************************************************)
NextShutdown ==
    \/ LoopStep
    \/ \E link_id \in HeldIds, condition \in Conditions : LinkAppears(link_id, condition)
    \/ \E link_id \in HeldIds, condition \in Conditions : LinkLapses(link_id, condition)
    \/ ShutdownCall
    \/ ShutdownFinalBegin
    \/ ShutdownFinalScan
    \/ \E raised \in BOOLEAN : ShutdownFinalEnd(raised)

SpecShutdown == Init /\ [][NextShutdown]_vars

(***************************************************************************)
(* Properties of the link registry, the cache and the cleanup thread.      *)
(***************************************************************************)

(* C1: for a link with max_downloads = N whose file exists and which has   *)
(* not expired, concurrent download_file requests send the file at most N  *)
(* times in every interleaving of their validity check and increment.      *)
C1_AtMostNRedemptions ==
    \A id \in LinkIds : sends[id] <= MAX_DOWNLOADS

(* the validity of a link as the data model states it: strictly before     *)
(* expires_at                                                              *)
ValidBeforeExpiry(id) ==
    /\ id \in DOMAIN temp_links
    /\ now < FromIsoFormat(temp_links[id].expires_at)
    /\ temp_links[id].download_count < temp_links[id].max_downloads
    /\ PathExists(temp_links[id].file_path)

(* the validity of a link up to and including the instant expires_at *)
ValidUpToExpiry(id) ==
    /\ id \in DOMAIN temp_links
    /\ now <= FromIsoFormat(temp_links[id].expires_at)
    /\ temp_links[id].download_count < temp_links[id].max_downloads
    /\ PathExists(temp_links[id].file_path)

(* C3 as stated: is_link_valid is true exactly when the id is registered,  *)
(* now < expires_at, download_count < max_downloads and the file exists,   *)
(* so a link is invalid at the instant now = expires_at.                   *)
C3_ValidIffBeforeExpiry ==
    \A id \in LinkIds : IsLinkValid(id) <=> ValidBeforeExpiry(id)

(* C3 amended: is_link_valid is true exactly when the id is registered,    *)
(* now <= expires_at, download_count < max_downloads and the file exists;  *)
(* a link is valid right after generate_temp_link when its file exists,    *)
(* and is still valid at the instant now = expires_at.                     *)
C3_ValidIffUpToExpiry ==
    \A id \in LinkIds :
        /\ IsLinkValid(id) <=> ValidUpToExpiry(id)
        /\ ( /\ id \in DOMAIN temp_links
             /\ FromIsoFormat(temp_links[id].created_at) = now
             /\ temp_links[id].download_count = 0
             /\ PathExists(temp_links[id].file_path) ) => IsLinkValid(id)

(* a link at the instant of its expiry, its file there and downloads left *)
C3_Witness ==
    \E id \in DOMAIN temp_links :
        /\ now = FromIsoFormat(temp_links[id].expires_at)
        /\ temp_links[id].download_count < temp_links[id].max_downloads
        /\ PathExists(temp_links[id].file_path)
        /\ IsLinkValid(id)

EntryLive(params) ==
    /\ SignatureForParams(params) \in DOMAIN download_index
    /\ PathExists(download_index[SignatureForParams(params)].file_path)

(* C8: a submission whose signature has a cache entry with its file on     *)
(* disk goes to the hit branch with the cached file (the fetch is not      *)
(* invoked), and the hit branch issues, without writing any file, a link   *)
(* id that was never issued before, for the cached file, expiring after    *)
(* the hours of the artifact's size tier: 2 hours for 5 MB.                *)
C8_CacheHitSkipsFetch ==
    [][\A s \in Subs :
        /\ (sub[s].pc = "idle" /\ sub'[s].pc # "idle" /\ EntryLive(sub'[s].params))
              => /\ sub'[s].pc = "hit"
                 /\ sub'[s].filename =
                       download_index[SignatureForParams(sub'[s].params)].filename
        /\ (sub[s].pc = "hit" /\ sub'[s].pc # "hit")
              => /\ sub'[s].pc = "idle"
                 /\ nfiles' = nfiles
                 /\ files' = files
                 /\ \E id \in DOMAIN temp_links' :
                       /\ id \notin issued
                       /\ DOMAIN temp_links' = DOMAIN temp_links \cup {id}
                       /\ temp_links'[id].filename = sub[s].filename
                       /\ FromIsoFormat(temp_links'[id].expires_at)
                             = now + GetExpiryHours(sub[s].file_size_mb)
                       /\ sub[s].file_size_mb = 5 =>
                             FromIsoFormat(temp_links'[id].expires_at) = now + 2
      ]_vars

(* two links issued for one artifact: the second came from a cache hit *)
C8_Witness ==
    \E id1, id2 \in DOMAIN temp_links :
        /\ id1 # id2
        /\ temp_links[id1].filename = temp_links[id2].filename
        /\ nfiles = 1

(* C9: check_cached returns the entry recorded for the params' signature   *)
(* if and only if the entry exists and its file is on disk, and none in    *)
(* every other case.                                                       *)
C9_CheckCachedIffEntryLive ==
    \A params \in SubmittedParams :
        LET r == CheckCached(params)
        IN  /\ r # None <=> EntryLive(params)
            /\ r # None => r = download_index[SignatureForParams(params)]

(* an entry whose file the Reaper has deleted: the lookup misses *)
C9_Witness ==
    \E params \in SubmittedParams :
        /\ SignatureForParams(params) \in DOMAIN download_index
        /\ ~PathExists(download_index[SignatureForParams(params)].file_path)
        /\ CheckCached(params) = None

(***************************************************************************)
(* Properties of the persistence of the registry.                          *)
(***************************************************************************)

(* C2: after a crash at any step of safe_save_temp_links, the map the next *)
(* load_temp_links returns is the complete map from before the save or the *)
(* complete map that was being saved.                                      *)
C2_LoadReturnsOldOrNew ==
    saver.pc = "loaded" => registry \in {saver.old, saver.new}

(***************************************************************************)
(* Properties of _safe_remove_file.                                        *)
(***************************************************************************)

(* C5: every file _safe_remove_file deletes has its resolved absolute path *)
(* inside DOWNLOAD_DIR, whatever file_path the record holds.               *)
C5_DeletesOnlyInsideRoot ==
    last_deleted # None => Contained(last_deleted, RelPath(<<DOWNLOAD_DIR>>))

(***************************************************************************)
(* Properties of the rate limiter.                                         *)
(***************************************************************************)
(* the admitted calls of an identifier whose times lie in the window of    *)
(* length window_seconds that opens with its i-th admitted call            *)
AdmittedInWindowFrom(identifier, i) ==
    {j \in 1..Len(rl_admitted[identifier]) :
        /\ rl_admitted[identifier][j] >= rl_admitted[identifier][i]
        /\ rl_admitted[identifier][j] <= rl_admitted[identifier][i] + WindowTicks}

C7_RetryAfterIsTimeRemaining ==
    ~rl_last.allowed =>
       /\ rl_last.retry_after * TicksPerSecond
             = WindowTicks - (rl_last.at - rl_last.oldest)
       /\ rl_last.retry_after >= 0
       /\ rl_last.retry_after <= window_seconds

(***************************************************************************)
(* Properties of the signature.                                            *)
(***************************************************************************)

(* C10: two parameter sets that differ only in the order of the items of   *)
(* their multi-valued fields have the same signature.                      *)
C10_SignatureIgnoresOrder ==
    SignatureForParams(sig_p) = SignatureForParams(sig_q)

(* the two sets differ, in a field of three items *)
C10_Witness ==
    /\ sig_p # sig_q
    /\ \E k \in MultiValued :
          /\ Len(sig_p[k].items) = 3
          /\ sig_p[k] # sig_q[k]

(* a key of the signature holds different values in the two parameter      *)
(* sets: different items for a multi-valued field, whatever their order,   *)
(* and a different value for area and data_format                          *)
DiffersIn(k) ==
    IF k \in MultiValued
    THEN Sorted(ParamsGet(sig_p, k).items) # Sorted(ParamsGet(sig_q, k).items)
    ELSE ParamsGet(sig_p, k) # ParamsGet(sig_q, k)

(* C11: two parameter sets that differ in the value of an included key,    *)
(* other than by the order of a multi-valued list, have different          *)
(* signatures; area is the ordered box [north, west, south, east].         *)
C11_SignatureSeparatesRequests ==
    (\E k \in SignatureKeys : DiffersIn(k))
        => SignatureForParams(sig_p) # SignatureForParams(sig_q)

(***************************************************************************)
(* Properties of the expiry tiers.                                         *)
(***************************************************************************)
(* the expiry the tier table states for a size *)
StatedExpiry(size_mb) ==
    IF size_mb <= 10 THEN 2
    ELSE IF size_mb <= 50 THEN 4
    ELSE IF size_mb <= 200 THEN 8
    ELSE IF size_mb <= 500 THEN 12
    ELSE IF size_mb <= 1000 THEN 24
    ELSE 48

C13_ExpiryMonotonic ==
    size_a < size_b => GetExpiryHours(size_a) <= GetExpiryHours(size_b)

(* two neighbouring sizes that fall into different tiers *)
C13_Witness ==
    /\ size_a = 10
    /\ size_b = 11
    /\ GetExpiryHours(size_a) < GetExpiryHours(size_b)

(***************************************************************************)
(* Properties of the download count.                                       *)
(***************************************************************************)

(* C14: in every reachable state every link of the registry has            *)
(* 0 <= download_count <= max_downloads.                                   *)
C14_CountWithinMax ==
    \A id \in DOMAIN temp_links :
       /\ temp_links[id].download_count >= 0
       /\ temp_links[id].download_count <= temp_links[id].max_downloads

(***************************************************************************)
(* Properties of the recovery at start-up.                                 *)
(***************************************************************************)

(* C15: when load_temp_links runs with the live file absent or unparseable *)
(* and the .bak of an interrupted save holding a valid snapshot, it        *)
(* returns the contents of the .bak.                                       *)
C15_LoadRecoversFromBak ==
    (saver.pc = "loaded" /\ ~Parses(disk.live) /\ Parses(disk.bak))
        => registry = disk.bak.data

Unreadable(file) == file.exists /\ ~Parses(file)

(* C16: when a start-up finds a live file it cannot parse and nothing to   *)
(* recover from, it loads an empty map and leaves the unreadable content   *)
(* under another file name, where it stays through later saves; for the    *)
(* link registry file and for the cache index file.                        *)
C16_UnreadableFileKeptAside ==
    [][/\ (saver.pc = "crashed" /\ saver'.pc = "loaded"
              /\ Unreadable(disk.live) /\ ~Parses(disk.bak))
          => (registry' = <<>> /\ disk'.aside = disk.live)
       /\ (saver.pc = "crashed" /\ saver'.pc = "loaded" /\ Unreadable(idx_disk.live))
          => (idx_mem' = {} /\ idx_disk'.aside = idx_disk.live)
       /\ disk.aside.exists => disk'.aside = disk.aside
       /\ idx_disk.aside.exists => idx_disk'.aside = idx_disk.aside]_vars

(* C17: no mutating operation returns normally when its snapshot was not   *)
(* written: after generate_temp_link or increment_download_count returned  *)
(* the registry file holds temp_links, and after add_to_cache returned the *)
(* index file holds download_index.                                        *)
C17_ReturnMeansSnapshotWritten ==
    /\ saver.pc = "idle" => LoadTempLinks = registry
    /\ idx_saver = "returned" => idx_disk.live = Saved(idx_mem)

(***************************************************************************)
(* Properties of the admission hook.                                       *)
(***************************************************************************)

(* C18: a submission during whose rate-limit check an exception was raised *)
(* is admitted, and the hook rejects only without a fault and when the     *)
(* identifier is over its limit.                                           *)
C18_FaultsFailOpen ==
    /\ hook_last.fault => hook_last.outcome = "admitted"
    /\ hook_last.outcome = "rejected" => (~hook_last.fault /\ hook_last.over_limit)

(* a submission over the limit, which allow rejected, was admitted because *)
(* the logging of the rate-limit event raised                              *)
C18_Witness ==
    /\ hook_last.fault
    /\ hook_last.over_limit
    /\ hook_last.outcome = "admitted"
    /\ ~rl_last.allowed

(***************************************************************************)
(* C19: a request from an identifier that is blacklisted when it arrives   *)
(* is rejected as blacklisted, adds no timestamp to the identifier's       *)
(* rate-limit window and records no suspicious event; and only such a      *)
(* request is rejected as blacklisted.                                     *)
(***************************************************************************)
C19_BlacklistedRejectedUntouched ==
    /\ sec_last.entered_listed =>
           /\ sec_last.outcome = "blacklisted"
           /\ ~sec_last.rate_added
           /\ ~sec_last.recorded
    /\ sec_last.outcome = "blacklisted" => sec_last.entered_listed

(* a request arrived from a blacklisted identifier that had sent requests before *)
C19_Witness ==
    /\ sec_last.entered_listed
    /\ sec_last.outcome = "blacklisted"
    /\ request_counts[sec_last.ip] # << >>

(***************************************************************************)
(* C20: a call of record_suspicious_activity returns, and it leaves the    *)
(* identifier blacklisted exactly when the number of its suspicious events *)
(* within the last 3600 seconds, the new one included, exceeds             *)
(* SUSPICIOUS_THRESHOLD.                                                   *)
(***************************************************************************)
C20_BlacklistedIffCountExceeds ==
    sec_last.recorded =>
        /\ sec_last.returned
        /\ sec_last.listed <=> sec_last.count > SUSPICIOUS_THRESHOLD

(* the identifier's last add_to_blacklist, as the call at sec_last.at found it, *)
(* is still in force at that time                                               *)
InForceAtLast ==
    /\ sec_last.ip \in DOMAIN sec_last.added
    /\ sec_last.added[sec_last.ip] <= sec_last.at
    /\ sec_last.at < sec_last.added[sec_last.ip] + BLACKLIST_DURATION

(***************************************************************************)
(* C21: an identifier blacklisted at time t is reported blacklisted at     *)
(* every time in [t, t + BLACKLIST_DURATION) and not from                  *)
(* t + BLACKLIST_DURATION on; is_blacklisted and cleanup_expired remove an *)
(* entry exactly when it has reached that boundary, and each leaves no     *)
(* expired entry of the identifiers it looked at.                          *)
(***************************************************************************)
C21_BlacklistedForDuration ==
    [][ /\ sec_last' # NoCheck =>
               /\ sec_last'.outcome = "blacklisted" <=> InForceAtLast'
               /\ sec_last' # sec_last /\ ~InForceAtLast' =>
                      sec_last'.ip \notin DOMAIN blacklist'
        /\ \A ip \in DOMAIN blacklist \ DOMAIN blacklist' :
               sec_now >= sec_added[ip] + BLACKLIST_DURATION
        /\ SecCleanupExpired =>
               \A ip \in DOMAIN blacklist' :
                   sec_now < sec_added[ip] + BLACKLIST_DURATION
      ]_vars

(* a request arrived exactly BLACKLIST_DURATION after its identifier was    *)
(* blacklisted: it was not rejected as blacklisted and the entry is gone    *)
C21_Witness ==
    /\ sec_last.ip \in DOMAIN sec_last.added
    /\ sec_last.at = sec_last.added[sec_last.ip] + BLACKLIST_DURATION
    /\ sec_last.outcome # "blacklisted"
    /\ sec_last.ip \notin DOMAIN blacklist

(***************************************************************************)
(* C22: on each of the routes download_file and check_link_status, the     *)
(* answer for a link id that is not in the registry differs from the       *)
(* answer for an id that is in the registry but expired or exhausted.      *)
(***************************************************************************)
C22_NotFoundDistinct ==
    \A a, b \in answers :
        /\ a.route = b.route
        /\ a.condition = "absent"
        /\ b.condition \in {"expired", "exhausted"}
        => <<a.code, a.message>> # <<b.code, b.message>>

(***************************************************************************)
(* C23: when the fetch of a submission fails or its join times out, the    *)
(* submission ends there with the fetch-failure error, and that step       *)
(* leaves the cache index, the link registry and their files as they       *)
(* were with no link issued; so does the later end of a fetch thread that  *)
(* was left running.                                                       *)
(***************************************************************************)
C23_FailedFetchLeavesNoTrace ==
    [][ /\ SubFetchFail("s1") \/ SubFetchTimeout("s1") =>
               /\ sub'["s1"] = SubIdle
               /\ UNCHANGED <<temp_links, download_index, links_file, index_file, issued>>
        /\ late_fetches' < late_fetches =>
               /\ UNCHANGED <<temp_links, download_index, links_file, index_file, issued>>
               /\ UNCHANGED sub
      ]_vars

(* a fetch thread left running by a timed-out submission has written its    *)
(* file, and neither the registry nor the index holds anything              *)
C23_Witness ==
    /\ late_fetches = 0
    /\ nfiles > 0
    /\ sub["s1"].pc = "idle"
    /\ DOMAIN temp_links = {}
    /\ DOMAIN download_index = {}
    /\ issued = {}

(***************************************************************************)
(* C24: for every op id the progress that ProgressManager.get returns      *)
(* never decreases from one call of init, set_status, set_fraction or      *)
(* complete to the next, and lies within 0..100.                           *)
(***************************************************************************)
C24_ProgressNeverDecreases ==
    [][ \A op_id \in OpIds :
            /\ ProgressOf(op_id)' >= ProgressOf(op_id)
            /\ ProgressOf(op_id)' \in 0..100
      ]_vars

(***************************************************************************)
(* C25: issuance, redemption and a Reaper pass exclude one another: while  *)
(* the Reaper is inside its pass, between taking its snapshot of the map   *)
(* and saving, no other thread changes the link map or writes the          *)
(* registry file.                                                          *)
(***************************************************************************)
C25_WritersExcludeOneAnother ==
    [][ reaper.pc = "scan" /\ reaper' = reaper =>
            UNCHANGED <<temp_links, links_file>>
      ]_vars

(***************************************************************************)
(* C26: once the error counter exceeds max_errors the shutdown flag is     *)
(* set, and with the flag set by the loop's own pass the loop begins no    *)
(* further pass.                                                           *)
(***************************************************************************)
C26_TooManyErrorsStopLoop ==
    [][ /\ error_count' > max_errors => shutdown_flag'
        /\ error_count > max_errors => cleanup'.pc \notin {"call", "scan"}
      ]_vars

(* the eleventh failing pass has set the flag and the loop has ended *)
C26_Witness ==
    /\ error_count = max_errors + 1
    /\ shutdown_flag
    /\ cleanup.pc = "exited"

(***************************************************************************)
(* C27: the error counter counts consecutive faulty passes: a pass in      *)
(* which the processing of some link raised leaves it one higher than it   *)
(* found it, and a pass without any fault leaves it at zero.               *)
(***************************************************************************)
C27_CounterIsConsecutive ==
    [][ cleanup.pc = "scan" /\ cleanup'.pc = "wait" =>
            /\ cleanup.faulted => error_count' = cleanup.errors_before + 1
            /\ ~cleanup.faulted /\ error_count' = error_count => error_count' = 0
      ]_vars

(***************************************************************************)
(* C28: a link whose processing raised during a pass is removed from the   *)
(* map by that pass, and every other link the pass looked at is removed    *)
(* if it was expired or exhausted and kept if it was live, as in a pass    *)
(* without the fault.                                                      *)
(***************************************************************************)
C28_FaultyLinkRemovedOthersAsUsual ==
    cleanup.pc = "wait" =>
        \A link_id \in DOMAIN cleanup.seen :
            link_id \in cleanup.left <=> cleanup.seen[link_id] = "live"

(* a pass met a malformed record, an expired one beside it, and removed both *)
C28_Witness ==
    /\ cleanup.pc = "wait"
    /\ \E a, b \in DOMAIN cleanup.seen :
           /\ cleanup.seen[a] = "malformed"
           /\ cleanup.seen[b] = "expired"
           /\ cleanup.left = {}

(***************************************************************************)
(* C29: a pass that removes no link changes neither the map nor the        *)
(* registry file and calls no save; a pass that removes a link calls the   *)
(* save once, after the removals: a save that succeeds leaves in the file  *)
(* the map with every collected link gone.                                 *)
(***************************************************************************)
C29_SaveOnlyAfterRemoval ==
    [][ cleanup.pc = "scan" /\ cleanup'.pc = "wait" =>
            IF cleanup.expired_links = << >>
            THEN /\ cleanup'.saves = 0
                 /\ UNCHANGED <<held_links, held_file>>
            ELSE /\ cleanup'.saves = 1
                 /\ error_count' = error_count =>
                        /\ held_file' = DOMAIN held_links'
                        /\ held_file' \cap SeqToSet(cleanup.expired_links) = {}
      ]_vars

(* a pass that removed one link of two has saved the other *)
C29_Witness ==
    /\ cleanup.pc = "wait"
    /\ cleanup.saves = 1
    /\ cleanup.left # {}
    /\ held_file = cleanup.left
    /\ DOMAIN cleanup.seen # cleanup.left

(***************************************************************************)
(* C30, as stated: once the shutdown flag is set the cleanup loop begins   *)
(* no pass, and it ends.                                                   *)
(***************************************************************************)
C30_NoPassOnceStopped ==
    /\ [][ shutdown_flag => ~(cleanup.pc = "call" /\ cleanup'.pc = "scan") ]_vars
    /\ shutdown_flag ~> cleanup.pc = "exited"

(***************************************************************************)
(* C30, amended: once the shutdown flag is set, every test of the loop     *)
(* condition ends the loop, so the only pass that can still begin is one   *)
(* whose test came before the flag was set; and the loop ends.             *)
(***************************************************************************)
C30_StopsAtNextTest ==
    /\ [][ shutdown_flag /\ cleanup.pc = "test" => cleanup'.pc \in {"test", "exited"} ]_vars
    /\ shutdown_flag ~> cleanup.pc = "exited"

(* shutdown() set the flag, no pass had failed, and the loop has ended *)
C30_Witness ==
    /\ shutdown_flag
    /\ error_count = 0
    /\ cleanup.pc = "exited"

(***************************************************************************)
(* C31: when shutdown() has returned, the flag is set and no link that was *)
(* expired or exhausted when shutdown() was called is left in the link     *)
(* map.                                                                    *)
(***************************************************************************)
C31_ShutdownLeavesNoLapsedLink ==
    closing.pc = "returned" =>
        /\ shutdown_flag
        /\ closing.at_call \cap DOMAIN held_links = {}

(* shutdown() was called with an exhausted link in the map while the loop   *)
(* was inside a pass, and has returned with the loop still running          *)
C31_Witness ==
    /\ closing.pc = "returned"
    /\ closing.at_call # {}
    /\ cleanup.pc # "exited"
    /\ DOMAIN held_links # {}

(***************************************************************************)
(* C32: the cache index is saved through a staging file that is renamed,   *)
(* so the live index file a crash leaves behind is never one cut short: it *)
(* is absent or holds a whole snapshot.                                    *)
(***************************************************************************)
C32_CrashLeavesWholeIndex ==
    saver.pc = "crashed" => ~idx_disk.live.exists \/ Parses(idx_disk.live)

(***************************************************************************)
(* C33: check_cached never changes the cache index: a lookup, also one     *)
(* that misses because the backing file is gone, leaves every entry in     *)
(* place, and an entry changes only by add_to_cache for its own signature. *)
(***************************************************************************)
C33_LookupLeavesIndex ==
    [][/\ \A s \in Subs :
            sub[s].pc = "idle" /\ sub'[s].pc # "idle" => download_index' = download_index
       /\ download_index' # download_index =>
            \E s \in Subs :
                /\ sub[s].pc = "cache"
                /\ sub'[s].pc = "issue"
                /\ DOMAIN download_index' =
                       DOMAIN download_index \cup {SignatureForParams(sub[s].params)}
                /\ \A sig \in DOMAIN download_index :
                       sig # SignatureForParams(sub[s].params) =>
                           download_index'[sig] = download_index[sig]]_vars

(* a lookup has missed on an entry whose backing file is gone, and the     *)
(* entry is still there                                                    *)
C33_Witness ==
    \E s \in Subs :
        /\ sub[s].pc = "fetch"
        /\ SignatureForParams(sub[s].params) \in DOMAIN download_index
        /\ ~PathExists(download_index[SignatureForParams(sub[s].params)].file_path)

(***************************************************************************)
(* C34: the cleanup never deletes a file that is still the backing file of *)
(* another link which is unexpired and not exhausted.                      *)
(***************************************************************************)
C34_SharedFileSurvives ==
    [][\A path \in files \ files' :
           ~\E link_id \in DOMAIN temp_links :
               /\ reaper.pc = "scan" /\ reaper.todo # <<>>
               /\ link_id # Head(reaper.todo)
               /\ temp_links[link_id].file_path = path
               /\ ~(now > FromIsoFormat(temp_links[link_id].expires_at))
               /\ temp_links[link_id].download_count < temp_links[link_id].max_downloads]_vars

(***************************************************************************)
(* C37: a rejection is recovered from by waiting the hinted time: when     *)
(* allow rejects an identifier at time t with retry_after = r and the next *)
(* call of allow is the same identifier's at t + r, that call is admitted. *)
(***************************************************************************)
C37_AdmittedAfterRetryAfter ==
    [][(/\ rl_budget'.calls # rl_budget.calls
        /\ ~rl_last.allowed
        /\ rl_last.identifier \in Identifiers
        /\ rl_last'.identifier = rl_last.identifier
        /\ rl_last'.at = rl_last.at + rl_last.retry_after * TicksPerSecond)
          => rl_last'.allowed]_vars

(***************************************************************************)
(* C38: a redemption that fails after the validity check leaves the link's *)
(* download_count as it was before the request: when send_file fails, the  *)
(* count of the link is the one the request read.                          *)
(***************************************************************************)
C38_FailedSendLeavesCount ==
    [][\A r \in Reqs :
          (/\ req[r].pc = "send"
           /\ req'[r].pc = "idle"
           /\ ~PathExists(req[r].file_path)
           /\ req[r].link_id \in DOMAIN temp_links')
             => temp_links'[req[r].link_id].download_count = req[r].val]_vars

(***************************************************************************)
(* SpecConcurrent: two submissions handled on concurrent request threads.  *)
(***************************************************************************)
NextConcurrent ==
    \/ SubNext("s1")
    \/ SubNext("s2")

SpecConcurrent == Init /\ [][NextConcurrent]_vars

(***************************************************************************)
(* C35: for one signature at most one fetch is in flight: a submission     *)
(* that arrives while a fetch for the same signature is running does not   *)
(* start a second fetch.                                                   *)
(***************************************************************************)
C35_OneFetchPerSignature ==
    \A s \in Subs : \A t \in Subs :
        (/\ s # t
         /\ sub[s].pc = "fetch"
         /\ sub[t].pc = "fetch")
           => SignatureForParams(sub[s].params) # SignatureForParams(sub[t].params)

(***************************************************************************)
(* SpecReclaim: one submitting client whose fetch can time out, the fetch  *)
(* threads left running, the cleanup thread and the clock.  The cleanup    *)
(* loop runs for as long as the process does and a request thread runs to  *)
(* its end, so both are taken weakly fair.                                 *)
(***************************************************************************)
NextReclaim ==
    \/ Tick
    \/ SubNext("s1")
    \/ SubFetchTimeout("s1")
    \/ \E written \in BOOLEAN : LateFetchEnds(written)
    \/ ReaperNext

SpecReclaim ==
    Init /\ [][NextReclaim]_vars /\ WF_vars(ReaperNext) /\ WF_vars(SubNext("s1"))

(* some link of the registry has the file as its backing file *)
Referenced(path) ==
    \E link_id \in DOMAIN temp_links : temp_links[link_id].file_path = path

(***************************************************************************)
(* C36: every file a fetch writes into the artifact root is referenced by  *)
(* a link of the registry or is eventually deleted, the file of a fetch    *)
(* that ends after its submission timed out included.                      *)
(***************************************************************************)
C36_EveryFileReclaimed ==
    \A i \in 1..MaxFiles :
        LET path == PathJoin(DOWNLOAD_DIR, FileName(i))
        IN  (path \in files) ~> (path \notin files \/ Referenced(path))

(***************************************************************************)
(* C39: a progress or status update that the fetch of one submission       *)
(* produces is recorded under that submission's own op id, also with two   *)
(* submissions in flight.                                                  *)
(***************************************************************************)
C39_UpdateUnderOwnOpId ==
    op_emit.by = op_emit.under

(***************************************************************************)
(* C40: the CircuitBreaker follows its three-state machine: after          *)
(* failure_threshold failing calls in a row it is OPEN; an OPEN breaker    *)
(* less than recovery_timeout after the last failure refuses a call        *)
(* without invoking the function; the first call from recovery_timeout on  *)
(* is a HALF_OPEN trial, which ends CLOSED with failure_count 0 on success *)
(* and OPEN on failure; a success in CLOSED sets failure_count to 0.       *)
(***************************************************************************)
C40_BreakerStateMachine ==
    [][/\ (cb_call'.pc = "idle" /\ cb_call'.run >= failure_threshold)
             => cb'.state = "OPEN"
       /\ (/\ cb_call.pc = "idle"
           /\ cb_budget'.calls # cb_budget.calls
           /\ cb.state = "OPEN")
             => IF cb_now - cb.last_failure_time < recovery_timeout
                THEN /\ cb_call'.pc = "idle"
                     /\ cb_call'.last = "refused"
                     /\ cb' = cb
                ELSE /\ cb_call'.pc = "running"
                     /\ cb'.state = "HALF_OPEN"
       /\ (/\ cb_call.pc = "idle"
           /\ cb_budget'.calls # cb_budget.calls
           /\ cb.state # "OPEN")
             => cb_call'.pc = "running" /\ cb' = cb
       /\ (cb_call.pc = "running" /\ cb_call'.pc = "idle" /\ cb.state = "HALF_OPEN")
             => /\ cb_call'.last = "returned" =>
                      cb'.state = "CLOSED" /\ cb'.failure_count = 0
                /\ cb_call'.last = "raised" => cb'.state = "OPEN"
       /\ (/\ cb_call.pc = "running" /\ cb_call'.pc = "idle" /\ cb.state = "CLOSED"
           /\ cb_call'.last = "returned")
             => cb'.state = "CLOSED" /\ cb'.failure_count = 0]_vars

(* the breaker opened, refused nothing more once recovery_timeout had      *)
(* passed, and the trial call succeeded                                    *)
C40_Witness ==
    /\ cb_call.pc = "idle"
    /\ cb_call.trial
    /\ cb_call.last = "returned"
    /\ cb.state = "CLOSED"
    /\ cb.failure_count = 0
    /\ cb.failed

====
